---- MODULE Spec2Model ----
(***************************************************************************)
(* Target-eye: the TargetConfig record (fa_target_eye/target_config.py)    *)
(* and the REST handlers that mutate it (fa_target_eye/rest_api.py).       *)
(*                                                                         *)
(* Python objects have reference semantics, so the model keeps a heap of   *)
(* list objects (targets), dict objects (labels) and asyncio.Lock objects; *)
(* a TargetConfig is a record of references into that heap.  Handlers are  *)
(* coroutines on one event loop: a step of the model is the code a handler *)
(* runs between two suspension points (await of the request body or of a   *)
(* file operation), or the file operation itself, run by a pool thread.    *)
(***************************************************************************)
EXTENDS Integers, Sequences, FiniteSets, TLC

VARIABLES
    listHeap,   \* list objects: id -> sequence of targets
    dictHeap,   \* dict objects: id -> mapping label name -> label value
    lockHeld,   \* asyncio.Lock objects: id -> locked?
    registry,   \* REST_APP.config["target_configs"]: file name -> TargetConfig
    disk,       \* the file_sd directory: file name -> file content
    pc,         \* where each handler coroutine is suspended
    req,        \* the request a coroutine serves (method, application, environment)
    tc,         \* the handler's local target_config
    fdStale,    \* the coroutine's open file was unlinked under it
    resp,       \* the response the last step sent, if it sent one
    nreq,       \* requests received so far
    snap,       \* history: per handler, what its lookup returned and what its
                \* request makes of that, for comparison with what it commits
    hist        \* history, when kept: the body of each request in flight and the
                \* last PUT answered, with the registry and the files it left

vars == <<listHeap, dictHeap, lockHeld, registry, disk, pc, req, tc, fdStale, resp, nreq, snap,
          hist>>

----------------------------------------------------------------------------
\* Bounds and input domains

\* longest targets list in a request body
MaxReqTargets == 2

\* requests a run receives
MaxRequests == 3

\* most labels in a request body
MaxReqLabels == 2

\* handler coroutines that can be in flight together
Procs == {"p1", "p2"}

\* request paths /<application>/<environment>
Paths == {<<"svc", "prod">>}

\* target strings a request may carry; "bad" stands for one validate_target rejects
ValidTargets == {"h1", "h2", "h3"}
ReqTargets == {"h1", "h2", "bad"}

\* label names; "9x" does not match METRIC_LABEL_NAME_RE
ValidLabelNames == {"job", "env", "k"}

\* the (name, value) members a request's labels may be made of
ReqLabels == {<<"job", "svc">>, <<"job", "">>, <<"k", "v">>, <<"k", "">>, <<"9x", "v">>}

Range(s) == {s[i] : i \in 1..Len(s)}

HasDuplicates(s) == \E i, j \in 1..Len(s) : i # j /\ s[i] = s[j]

SeqsUpTo(S, n) == UNION {[1..m -> S] : m \in 0..n}

\* a request's labels: the members of the JSON object in the order given
LabelSeqs ==
    {s \in SeqsUpTo(ReqLabels, MaxReqLabels) :
        \A i, j \in 1..Len(s) : i # j => s[i][1] # s[j][1]}

Names(ls) == {ls[i][1] : i \in 1..Len(ls)}

\* the dict a sequence of (name, value) members denotes
DictOf(ls) == [n \in Names(ls) |-> ls[CHOOSE i \in 1..Len(ls) : ls[i][1] = n][2]]

EmptyDict == [n \in {} |-> ""]

DictUpdate(d, e) ==
    [n \in DOMAIN d \cup DOMAIN e |-> IF n \in DOMAIN e THEN e[n] ELSE d[n]]

\* a removal that removes nothing
DictKept(d, S) == d

DictRemove(d, S) == [n \in DOMAIN d \ S |-> d[n]]

\* request bodies as targets_in_request / labels_in_request find them: a member
\* that the body does not carry is None there (hasTargets / hasLabels FALSE here)
RequestBodies ==
    {b \in [hasTargets : BOOLEAN, targets : SeqsUpTo(ReqTargets, MaxReqTargets),
            hasLabels : BOOLEAN, labels : LabelSeqs] :
        /\ ~b.hasTargets => b.targets = <<>>
        /\ ~b.hasLabels => b.labels = <<>>}

\* the bodies of the requests that run concurrently: at most one target, at most
\* the label k
ConcurrentBodies ==
    {b \in [hasTargets : BOOLEAN, targets : {<<>>, <<"h1">>, <<"h2">>},
            hasLabels : BOOLEAN, labels : {<<>>, << <<"k", "v">> >>}] :
        /\ b.hasTargets = (b.targets # <<>>)
        /\ b.hasLabels = (b.labels # <<>>)}

----------------------------------------------------------------------------
\* TargetConfig: validators, construction, serialization (target_config.py)

\* validate_target returns True or raises ValueError; TRUE here is "returns"
validate_target(target) == target \in ValidTargets

\* validate_targets: the attrs validator of the targets attribute
validate_targets(targets) == \A i \in 1..Len(targets) : validate_target(targets[i])

\* validate_label: every str value encodes as UTF-8, so the name decides
validate_label(label_name, label_value) == label_name \in ValidLabelNames

\* validate_labels: the attrs validator of the labels attribute
validate_labels(labels) == \A n \in DOMAIN labels : validate_label(n, labels[n])

\* value.strip() is empty
Blank(value) == value \in {"", " "}

\* __attrs_post_init__: the labels of a freshly constructed TargetConfig
attrs_post_init(application, environment, labels) ==
    LET l0 == IF DOMAIN labels = {}
              THEN [n \in {"job", "env"} |->
                       IF n = "job" THEN application ELSE environment]
              ELSE labels
        l1 == IF "job" \notin DOMAIN l0
              THEN DictUpdate(l0, [n \in {"job"} |-> application]) ELSE l0
    IN  IF "env" \notin DOMAIN l1
        THEN DictUpdate(l1, [n \in {"env"} |-> environment]) ELSE l1

\* the hash of application ++ environment, taken as collision-free on that string
hash_value(application, environment) == application \o environment

\* TargetConfig.filename
filename(application, environment) == hash_value(application, environment) \o ".json"

\* TargetConfig.json: a list holding one object, targets in the order kept
json(targets, labels) == <<[targets |-> targets, labels |-> labels]>>

\* the document satisfies TARGET_CONFIG_FILE_SCHEMA
schema_valid(doc) ==
    /\ Len(doc) = 1
    /\ DOMAIN doc[1] = {"targets", "labels"}
    /\ Len(doc[1].targets) >= 1
    /\ Cardinality(DOMAIN doc[1].labels) >= 2
    /\ {"job", "env"} \subseteq DOMAIN doc[1].labels
    /\ doc[1].labels["job"] # ""
    /\ doc[1].labels["env"] # ""

\* TargetConfig.valid_prometheus_json
valid_prometheus_json(targets, labels) == schema_valid(json(targets, labels))

\* the attributes of a TargetConfig as values
RecordValue(application, environment, targets, labels) ==
    [application |-> application, environment |-> environment,
     targets |-> targets, labels |-> labels]

\* from_json_file: the record built from a file's document, <<>> when the
\* constructor's validators raise; application and environment are taken from the
\* labels job and env
from_json_file(doc) ==
    LET target_config_dict == doc[1]
        application == target_config_dict.labels["job"]
        environment == target_config_dict.labels["env"]
    IN  IF /\ validate_targets(target_config_dict.targets)
           /\ validate_labels(target_config_dict.labels)
        THEN <<RecordValue(application, environment, target_config_dict.targets,
                           attrs_post_init(application, environment,
                                           target_config_dict.labels))>>
        ELSE <<>>

\* how often x occurs in s
Count(s, x) == Cardinality({i \in 1..Len(s) : s[i] = x})

\* sorted(s) == sorted(t)
SameSorted(s, t) == \A x \in Range(s) \cup Range(t) : Count(s, x) = Count(t, x)

\* __eq__
eq(self, other) ==
    /\ self.application = other.application
    /\ self.environment = other.environment
    /\ SameSorted(self.targets, other.targets)
    /\ self.labels = other.labels

----------------------------------------------------------------------------
\* TargetConfig: the mutation methods, on the values of self.targets and
\* self.labels.  result is "true" / "false" (the return value) or "raise"
\* (ValueError); value is what the attribute holds afterwards.

\* first position of the loop at which the method returns False or raises
FirstStop(n, Stops(_)) ==
    IF \E i \in 1..n : Stops(i) THEN CHOOSE i \in 1..n : Stops(i) /\ \A j \in 1..(i-1) : ~Stops(j)
    ELSE 0

\* update_with_new_targets extending the list as its loop goes
update_with_new_targets_as_it_goes(self_targets, targets) ==
    LET Present(i) == targets[i] \in Range(self_targets)
        Stops(i) == Present(i) \/ ~validate_target(targets[i])
        stop == FirstStop(Len(targets), Stops)
    IN  IF targets = <<>> \/ HasDuplicates(targets)
        THEN [result |-> "false", value |-> self_targets]
        ELSE IF stop # 0
        THEN [result |-> IF Present(stop) THEN "false" ELSE "raise",
              value |-> self_targets \o SubSeq(targets, 1, stop - 1)]
        ELSE [result |-> "true", value |-> self_targets \o targets]

\* update_with_new_targets without its look into self.targets
update_with_new_targets_unseen(self_targets, targets) ==
    LET stop == FirstStop(Len(targets), LAMBDA i : ~validate_target(targets[i]))
    IN  IF targets = <<>> \/ HasDuplicates(targets)
        THEN [result |-> "false", value |-> self_targets]
        ELSE IF stop # 0
        THEN [result |-> "raise", value |-> self_targets]
        ELSE [result |-> "true", value |-> self_targets \o targets]

update_with_new_targets(self_targets, targets) ==
    LET Present(i) == targets[i] \in Range(self_targets)
        Stops(i) == Present(i) \/ ~validate_target(targets[i])
        stop == FirstStop(Len(targets), Stops)
    IN  IF targets = <<>> \/ HasDuplicates(targets)
        THEN [result |-> "false", value |-> self_targets]
        ELSE IF stop # 0
        THEN [result |-> IF Present(stop) THEN "false" ELSE "raise", value |-> self_targets]
        ELSE [result |-> "true", value |-> self_targets \o targets]

\* update_with_new_labels without "if self.labels[name] == value: return False"
update_with_new_labels_same_value(self_labels, labels) ==
    LET Known(i) == labels[i][1] \in DOMAIN self_labels
        Refused(i) == Blank(labels[i][2])
        Stops(i) == Known(i) /\ (Refused(i) \/ ~validate_label(labels[i][1], labels[i][2]))
        stop == FirstStop(Len(labels), Stops)
    IN  IF labels = <<>>
        THEN [result |-> "false", value |-> self_labels]
        ELSE IF stop # 0
        THEN [result |-> IF Refused(stop) THEN "false" ELSE "raise", value |-> self_labels]
        ELSE [result |-> "true", value |-> DictUpdate(self_labels, DictOf(labels))]

update_with_new_labels(self_labels, labels) ==
    LET Known(i) == labels[i][1] \in DOMAIN self_labels
        Refused(i) == Blank(labels[i][2]) \/ self_labels[labels[i][1]] = labels[i][2]
        Stops(i) == Known(i) /\ (Refused(i) \/ ~validate_label(labels[i][1], labels[i][2]))
        stop == FirstStop(Len(labels), Stops)
    IN  IF labels = <<>>
        THEN [result |-> "false", value |-> self_labels]
        ELSE IF stop # 0
        THEN [result |-> IF Refused(stop) THEN "false" ELSE "raise", value |-> self_labels]
        ELSE [result |-> "true", value |-> DictUpdate(self_labels, DictOf(labels))]

\* the orders in which list(set(...)) may enumerate a set of strings
Orderings(S) == {s \in [1..Cardinality(S) -> S] : Range(s) = S}

\* delete_from_targets without "all(target in self.targets ...)"
delete_from_targets_unchecked(self_targets, targets) ==
    IF \/ targets = <<>>
       \/ HasDuplicates(targets)
       \/ Len(targets) = Len(self_targets)
    THEN [result |-> "false", values |-> {self_targets}]
    ELSE [result |-> "true", values |-> Orderings(Range(self_targets) \ Range(targets))]

\* delete_from_targets: values is every list the set difference may come out as
delete_from_targets(self_targets, targets) ==
    IF \/ targets = <<>>
       \/ ~(Range(targets) \subseteq Range(self_targets))
       \/ HasDuplicates(targets)
       \/ Len(targets) = Len(self_targets)
    THEN [result |-> "false", values |-> {self_targets}]
    ELSE [result |-> "true", values |-> Orderings(Range(self_targets) \ Range(targets))]

\* delete_from_labels without "if label_value != self.labels[label_name]"
delete_from_labels_any_value(self_labels, labels) ==
    IF \/ labels = <<>>
       \/ "job" \in Names(labels) \/ "env" \in Names(labels)
       \/ \E i \in 1..Len(labels) : labels[i][1] \notin DOMAIN self_labels
    THEN [result |-> "false", value |-> self_labels]
    ELSE [result |-> "true", value |-> DictRemove(self_labels, Names(labels))]

\* delete_from_labels without its refusal of job and env
delete_from_labels_unprotected(self_labels, labels) ==
    IF \/ labels = <<>>
       \/ \E i \in 1..Len(labels) :
             \/ labels[i][1] \notin DOMAIN self_labels
             \/ labels[i][2] # self_labels[labels[i][1]]
    THEN [result |-> "false", value |-> self_labels]
    ELSE [result |-> "true", value |-> DictRemove(self_labels, Names(labels))]

delete_from_labels(self_labels, labels) ==
    IF \/ labels = <<>>
       \/ "job" \in Names(labels) \/ "env" \in Names(labels)
       \/ \E i \in 1..Len(labels) :
             \/ labels[i][1] \notin DOMAIN self_labels
             \/ labels[i][2] # self_labels[labels[i][1]]
    THEN [result |-> "false", value |-> self_labels]
    ELSE [result |-> "true", value |-> DictRemove(self_labels, Names(labels))]

\* replace_labels_for_put keeping every current label the request does not give
replace_labels_for_put_keeping(self_labels, new_labels) ==
    LET d == DictUpdate(self_labels, DictOf(new_labels))
    IN  IF validate_labels(d)
        THEN [result |-> "true", value |-> d]
        ELSE [result |-> "raise", value |-> self_labels]

\* replace_labels_for_put (rest_api.py): new_labels, completed with the current job
\* and env, becomes the labels dict
replace_labels_for_put(self_labels, new_labels) ==
    LET d0 == DictOf(new_labels)
        d1 == IF "job" \notin DOMAIN d0
              THEN DictUpdate(d0, [n \in {"job"} |-> self_labels["job"]]) ELSE d0
        d2 == IF "env" \notin DOMAIN d1
              THEN DictUpdate(d1, [n \in {"env"} |-> self_labels["env"]]) ELSE d1
    IN  IF validate_labels(d2)
        THEN [result |-> "true", value |-> d2]
        ELSE [result |-> "raise", value |-> self_labels]

----------------------------------------------------------------------------
\* The heap, the registry and the directory

\* the files the requests can name
FileNames == {filename(path[1], path[2]) : path \in Paths}

\* object ids; 0 is "no object".  One object per registry entry and per coroutine
\* can be live, and one more is being made
ObjIds == 1..(Cardinality(FileNames) + Cardinality(Procs) + 1)

\* a handler's target_config is None
NoTC == [application |-> "", environment |-> "", targets |-> 0, labels |-> 0, lock |-> 0]

NoReq == [method |-> "", application |-> "", environment |-> ""]

NoResp == [proc |-> "", method |-> "", status |-> 0, error |-> "", body |-> <<>>]

\* a handler without history
NoSnap == [base |-> <<>>, expect |-> <<>>, overlapped |-> FALSE]

\* the TargetConfig objects alive: the registry's and each handler's
Held(reg, tcs) == {reg[f] : f \in DOMAIN reg} \cup {tcs[p] : p \in Procs}

\* the first id no live TargetConfig refers to
FreshId(used) == CHOOSE i \in ObjIds : i \notin used /\ \A j \in 1..(i-1) : j \in used

NewListId == FreshId({t.targets : t \in Held(registry, tc)})

NewDictId == FreshId({t.labels : t \in Held(registry, tc)})

NewLockId == FreshId({t.lock : t \in Held(registry, tc)})

\* objects nothing refers to any more are collected
Collect(heap, used, empty) == [i \in ObjIds |-> IF i \in used THEN heap[i] ELSE empty]

\* the state after a step: the heaps lh, dh, lk as the step left them, less garbage
Store(lh, dh, lk, reg, tcs) ==
    /\ registry' = reg
    /\ tc' = tcs
    /\ listHeap' = Collect(lh, {t.targets : t \in Held(reg, tcs)}, <<>>)
    /\ dictHeap' = Collect(dh, {t.labels : t \in Held(reg, tcs)}, EmptyDict)
    /\ lockHeld' = Collect(lk, {t.lock : t \in Held(reg, tcs)}, FALSE)

\* target_config.json read through the references
JsonOf(lh, dh, t) == json(lh[t.targets], dh[t.labels])

\* what a lookup in the registry returns, as documents
RegView == [f \in DOMAIN registry |-> JsonOf(listHeap, dictHeap, registry[f])]

\* a copy that gets a lock of its own, as a constructed TargetConfig does
deepcopy_own_lock(target_config) ==
    [application |-> target_config.application,
     environment |-> target_config.environment,
     targets |-> target_config.targets,
     labels |-> target_config.labels,
     lock |-> NewLockId]

\* __deepcopy__: attr.evolve(self, file_lock=self._file_lock) builds a new
\* TargetConfig from the attributes of self as they are: the new object refers to
\* the same targets list, the same labels dict and the same lock
deepcopy(target_config) ==
    [application |-> target_config.application,
     environment |-> target_config.environment,
     targets |-> target_config.targets,
     labels |-> target_config.labels,
     lock |-> target_config.lock]

\* a lookup that finds no record, whatever the registry holds
maybe_find_nothing(application, environment, target_configs) == NoTC

\* maybe_find_target_config
maybe_find_target_config(application, environment, target_configs) ==
    IF filename(application, environment) \in DOMAIN target_configs
    THEN deepcopy(target_configs[filename(application, environment)])
    ELSE NoTC

\* len(json.dumps(...)) of a document, for writes that land on one another
RECURSIVE SumLen(_)
SumLen(s) == IF s = <<>> THEN 0 ELSE Len(s[1]) + 2 + SumLen(Tail(s))

RECURSIVE SumItems(_, _)
SumItems(d, S) ==
    IF S = {} THEN 0
    ELSE LET n == CHOOSE x \in S : TRUE
         IN  Len(n) + Len(d[n]) + 6 + SumItems(d, S \ {n})

Separators(n) == IF n = 0 THEN 0 ELSE 2 * (n - 1)

JsonLen(doc) ==
    31 + SumLen(doc[1].targets) + Separators(Len(doc[1].targets))
       + SumItems(doc[1].labels, DOMAIN doc[1].labels)
       + Separators(Cardinality(DOMAIN doc[1].labels))

\* file contents: a whole document, an empty file (opened with mode "w", nothing
\* written yet), or the bytes of two writes on top of one another
FileJson(doc) == [kind |-> "json", doc |-> doc, len |-> JsonLen(doc)]

FileEmpty == [kind |-> "empty", doc |-> <<>>, len |-> 0]

FileMixed(len) == [kind |-> "mixed", doc |-> <<>>, len |-> len]

\* no request history, kept (on) or not
NoHist(on) == [on |-> on, cur |-> [p \in Procs |-> <<>>], last |-> <<>>, repeat |-> FALSE]

\* the application after setup: an empty directory, an empty registry, no request
Started ==
    /\ listHeap = [i \in ObjIds |-> <<>>]
    /\ dictHeap = [i \in ObjIds |-> EmptyDict]
    /\ lockHeld = [i \in ObjIds |-> FALSE]
    /\ registry = EmptyDict
    /\ disk = EmptyDict
    /\ pc = [p \in Procs |-> "idle"]
    /\ req = [p \in Procs |-> NoReq]
    /\ tc = [p \in Procs |-> NoTC]
    /\ fdStale = [p \in Procs |-> FALSE]
    /\ resp = NoResp
    /\ nreq = 0
    /\ snap = [p \in Procs |-> NoSnap]

Init == Started /\ hist = NoHist(FALSE)

\* the same, with the history of requests kept
InitHist == Started /\ hist = NoHist(TRUE)

----------------------------------------------------------------------------
\* What a handler does between two suspension points is computed on a context:
\* the heaps as the handler has left them so far, its target_config, and the
\* exception it has raised, if any, with the status of the response that follows

Ctx(p) ==
    [lh |-> listHeap, dh |-> dictHeap, lk |-> lockHeld, t |-> tc[p],
     status |-> 200, error |-> ""]

\* every exception answered as the framework answers the ones it does not know
StatusOf_unhandled(error) == 500

\* targets_management turns ValueError, TypeError and jsonschema.ValidationError
\* into InvalidUsage, which is answered with its status_code, 400; any other
\* exception is the framework's 500
StatusOf(error) ==
    IF error \in {"InvalidUsage", "ValueError", "TypeError", "ValidationError"}
    THEN 400 ELSE 500

Raise(c, error) == [c EXCEPT !.status = StatusOf(error), !.error = error]

\* TargetConfig(application=..., environment=..., targets=..., labels=...): the
\* validators run, then __attrs_post_init__; the object keeps the list and the dict
\* it is given and makes a lock of its own
TargetConfigNew(c, application, environment, targets, labels) ==
    IF ~validate_targets(targets) \/ ~validate_labels(labels)
    THEN Raise(c, "ValueError")
    ELSE [c EXCEPT !.lh[NewListId] = targets,
                   !.dh[NewDictId] = attrs_post_init(application, environment, labels),
                   !.lk[NewLockId] = FALSE,
                   !.t = [application |-> application, environment |-> environment,
                          targets |-> NewListId, labels |-> NewDictId, lock |-> NewLockId]]

\* target_config.update_with_new_targets(...): self.targets.extend, in place
CallUpdateTargets(c, targets) ==
    LET r == update_with_new_targets(c.lh[c.t.targets], targets)
        c1 == [c EXCEPT !.lh[c.t.targets] = r.value]
    IN  IF r.result = "true" THEN c1
        ELSE Raise(c1, IF r.result = "raise" THEN "ValueError" ELSE "InvalidUsage")

\* target_config.update_with_new_labels(...): self.labels.update, in place
CallUpdateLabels(c, labels) ==
    LET r == update_with_new_labels(c.dh[c.t.labels], labels)
        c1 == [c EXCEPT !.dh[c.t.labels] = r.value]
    IN  IF r.result = "true" THEN c1
        ELSE Raise(c1, IF r.result = "raise" THEN "ValueError" ELSE "InvalidUsage")

\* target_config.delete_from_targets(...): self.targets = list(...), a new list,
\* which comes out as pick
CallDeleteTargets(c, targets, pick) ==
    LET r == delete_from_targets(c.lh[c.t.targets], targets)
    IN  IF r.result = "true"
        THEN [c EXCEPT !.lh[NewListId] = pick, !.t.targets = NewListId]
        ELSE Raise(c, "InvalidUsage")

\* target_config.delete_from_labels(...): del self.labels[label], in place
CallDeleteLabels(c, labels) ==
    LET r == delete_from_labels(c.dh[c.t.labels], labels)
        c1 == [c EXCEPT !.dh[c.t.labels] = r.value]
    IN  IF r.result = "true" THEN c1 ELSE Raise(c1, "InvalidUsage")

\* put's replacement of the targets done as an extension of the list
CallReplaceTargets_extending(c, targets) ==
    IF validate_targets(targets)
    THEN [c EXCEPT !.lh[NewListId] = c.lh[c.t.targets] \o targets, !.t.targets = NewListId]
    ELSE Raise(c, "ValueError")

\* put's replacement of the targets without the validation before it
CallReplaceTargets_unvalidated(c, targets) ==
    [c EXCEPT !.lh[NewListId] = targets, !.t.targets = NewListId]

\* put, lines 335-338: validate every target, then target_config.targets = request_targets
CallReplaceTargets(c, targets) ==
    IF validate_targets(targets)
    THEN [c EXCEPT !.lh[NewListId] = targets, !.t.targets = NewListId]
    ELSE Raise(c, "ValueError")

\* replace_labels_for_put: target_config.labels = new_labels, the request's dict
CallReplaceLabels(c, labels) ==
    LET r == replace_labels_for_put(c.dh[c.t.labels], labels)
    IN  IF r.result = "true"
        THEN [c EXCEPT !.dh[NewDictId] = r.value, !.t.labels = NewDictId]
        ELSE Raise(c, "ValueError")

\* find_or_create_target_config
find_or_create_target_config(c, application, environment) ==
    IF filename(application, environment) \in DOMAIN registry
    THEN [c EXCEPT !.t = deepcopy(registry[filename(application, environment)])]
    ELSE TargetConfigNew(c, application, environment, <<>>, EmptyDict)

\* targets_in_request and labels_in_request return: the targets pass
\* TARGETS_LIST_SCHEMA (minItems 1) and every label passes validate_label
ParseOk(body) ==
    /\ body.hasTargets => body.targets # <<>>
    /\ \A i \in 1..Len(body.labels) : validate_label(body.labels[i][1], body.labels[i][2])

\* what targets_in_request or labels_in_request raises when ParseOk is false
ParseError(body) ==
    IF body.hasTargets /\ body.targets = <<>> THEN "ValidationError" ELSE "ValueError"

\* post, lines 278-301
post_apply(c, r, body) ==
    IF c.t # NoTC
    THEN IF body.targets = <<>> /\ body.labels = <<>> THEN Raise(c, "InvalidUsage")
         ELSE IF body.hasTargets /\ body.targets = <<>> THEN Raise(c, "InvalidUsage")
         ELSE IF body.hasLabels /\ body.labels = <<>> THEN Raise(c, "InvalidUsage")
         ELSE LET c1 == IF body.targets # <<>> THEN CallUpdateTargets(c, body.targets) ELSE c
              IN  IF c1.status # 200 THEN c1
                  ELSE IF body.labels # <<>> THEN CallUpdateLabels(c1, body.labels) ELSE c1
    ELSE IF body.targets = <<>> THEN Raise(c, "InvalidUsage")
    ELSE TargetConfigNew(c, r.application, r.environment, body.targets, DictOf(body.labels))

\* put without its branch for a request with both targets and labels
put_apply_on_lookup(c, r, body) ==
    LET c1 == find_or_create_target_config(c, r.application, r.environment)
        c2 == IF body.targets # <<>> THEN CallReplaceTargets(c1, body.targets) ELSE c1
    IN  IF c2.status # 200 THEN c2
        ELSE IF body.labels # <<>> THEN CallReplaceLabels(c2, body.labels) ELSE c2

\* put, lines 322-341
put_apply(c, r, body) ==
    IF body.targets # <<>> /\ body.labels # <<>>
    THEN TargetConfigNew(c, r.application, r.environment, body.targets, DictOf(body.labels))
    ELSE LET c1 == find_or_create_target_config(c, r.application, r.environment)
             c2 == IF body.targets # <<>> THEN CallReplaceTargets(c1, body.targets) ELSE c1
         IN  IF c2.status # 200 THEN c2
             ELSE IF body.labels # <<>> THEN CallReplaceLabels(c2, body.labels) ELSE c2

\* delete, lines 387-397
delete_apply(c, body, pick) ==
    IF body.hasTargets /\ body.targets = <<>> THEN Raise(c, "InvalidUsage")
    ELSE IF body.hasLabels /\ body.labels = <<>> THEN Raise(c, "InvalidUsage")
    ELSE LET c1 == IF body.targets # <<>> THEN CallDeleteTargets(c, body.targets, pick) ELSE c
         IN  IF c1.status # 200 THEN c1
             ELSE IF body.labels # <<>> THEN CallDeleteLabels(c1, body.labels) ELSE c1

\* the lists delete_from_targets may produce for this request
DeletePicks(c, body) ==
    IF body.targets # <<>>
    THEN delete_from_targets(c.lh[c.t.targets], body.targets).values
    ELSE {<<>>}

\* write_to_file without its schema check
write_to_file_unchecked(c) == c

\* write_to_file, up to the lock: TypeError when the schema check fails (the
\* directory exists: setup_file_sd_directory made it)
write_to_file_check(c) ==
    IF valid_prometheus_json(c.lh[c.t.targets], c.dh[c.t.labels]) THEN c ELSE Raise(c, "TypeError")

----------------------------------------------------------------------------
\* History of each handler: base is the document its lookup returned (<<>> when it
\* took none or found nothing), expect the document its request makes of base
\* (<<>> when the request does not apply to base), overlapped whether another
\* request that also worked on a lookup committed since this handler's lookup

Snapshot(t) ==
    [NoSnap EXCEPT !.base = IF t = NoTC THEN <<>> ELSE JsonOf(listHeap, dictHeap, t)]

\* post's two updates applied to the values of a document
post_value(doc, body) ==
    IF doc = <<>> THEN <<>>
    ELSE LET t == IF body.targets # <<>>
                  THEN update_with_new_targets(doc[1].targets, body.targets)
                  ELSE [result |-> "true", value |-> doc[1].targets]
             l == IF body.labels # <<>>
                  THEN update_with_new_labels(doc[1].labels, body.labels)
                  ELSE [result |-> "true", value |-> doc[1].labels]
         IN  IF t.result = "true" /\ l.result = "true" THEN json(t.value, l.value) ELSE <<>>

\* put's replacements (one of targets, labels) applied to the values of a document
put_value(doc, body) ==
    IF doc = <<>> \/ (body.targets # <<>> /\ body.labels # <<>>) THEN <<>>
    ELSE LET l == IF body.labels # <<>>
                  THEN replace_labels_for_put(doc[1].labels, body.labels)
                  ELSE [result |-> "true", value |-> doc[1].labels]
         IN  IF validate_targets(body.targets) /\ l.result = "true"
             THEN json(IF body.targets # <<>> THEN body.targets ELSE doc[1].targets, l.value)
             ELSE <<>>

\* delete's two removals applied to the values of a document
delete_value(doc, body, pick) ==
    IF doc = <<>> \/ (body.targets = <<>> /\ body.labels = <<>>) THEN <<>>
    ELSE LET t == IF body.targets # <<>>
                  THEN delete_from_targets(doc[1].targets, body.targets)
                  ELSE [result |-> "true", values |-> {doc[1].targets}]
             l == IF body.labels # <<>>
                  THEN delete_from_labels(doc[1].labels, body.labels)
                  ELSE [result |-> "true", value |-> doc[1].labels]
         IN  IF t.result = "true" /\ l.result = "true"
             THEN json(IF pick \in t.values THEN pick ELSE CHOOSE v \in t.values : TRUE,
                       l.value)
             ELSE <<>>

----------------------------------------------------------------------------
\* The handlers' steps

FileOf(t) == filename(t.application, t.environment)

\* history: a request other than a PUT came in
Forget == IF hist.on THEN [hist EXCEPT !.last = <<>>, !.repeat = FALSE] ELSE hist

\* history: handler p takes a new request, whose body it has not read yet
Begun(p, h) == IF h.on THEN [h EXCEPT !.cur[p] = <<>>] ELSE h

\* history: the handler has read body; the body is kept while the request is in
\* flight and, when this very step answers it, until the handler's next request
Noted(p, body) == IF hist.on THEN [hist EXCEPT !.cur[p] = <<body>>] ELSE hist

\* history: this step answered the PUT that carried body
Answered(p, body) ==
    [hist EXCEPT !.cur[p] = <<>>,
                 !.last = <<[body |-> body, status |-> resp'.status,
                             view |-> RegView', files |-> disk']>>,
                 !.repeat = hist.last # <<>> /\ hist.last[1].body = body]

\* history: the handler has read the body of a PUT
NotedPut(p, body) ==
    IF hist.on /\ resp'.status # 0
    THEN [Answered(p, body) EXCEPT !.cur[p] = <<body>>]
    ELSE Noted(p, body)

\* history: the step that answers the request after its file operation
Finished(p) ==
    IF hist.on
    THEN IF req[p].method = "PUT" /\ hist.cur[p] # <<>>
         THEN Answered(p, hist.cur[p][1])
         ELSE [hist EXCEPT !.cur[p] = <<>>]
    ELSE hist

Respond(p, method, status, error, body) ==
    resp' = [proc |-> p, method |-> method, status |-> status, error |-> error,
             body |-> body]

\* the handler raised: targets_management or the framework answers 400 or 500, and
\* the handler's target_config is dropped; what it did to shared objects stays
Reject(p, c) ==
    /\ pc' = [pc EXCEPT ![p] = "idle"]
    /\ req' = [req EXCEPT ![p] = NoReq]
    /\ Respond(p, req[p].method, c.status, c.error, <<>>)
    /\ Store(c.lh, c.dh, c.lk, registry, [tc EXCEPT ![p] = NoTC])
    /\ snap' = [snap EXCEPT ![p] = NoSnap]
    /\ UNCHANGED <<disk, fdStale>>

\* write_to_file entering its lock without waiting for it
EnterLock_unguarded(p, c, s) ==
    /\ pc' = [pc EXCEPT ![p] = "opening"]
    /\ Store(c.lh, c.dh, [c.lk EXCEPT ![c.t.lock] = TRUE], registry, [tc EXCEPT ![p] = c.t])
    /\ snap' = [snap EXCEPT ![p] = s]
    /\ UNCHANGED <<req, disk, fdStale>>
    /\ resp' = NoResp

\* write_to_file reaches "async with self._file_lock": a free lock is taken at
\* once and the handler suspends in aiofiles.open; a held one suspends it in acquire
EnterLock(p, c, s) ==
    /\ pc' = [pc EXCEPT ![p] = IF c.lk[c.t.lock] THEN "lock_wait" ELSE "opening"]
    /\ Store(c.lh, c.dh, [c.lk EXCEPT ![c.t.lock] = TRUE], registry, [tc EXCEPT ![p] = c.t])
    /\ snap' = [snap EXCEPT ![p] = s]
    /\ UNCHANGED <<req, disk, fdStale>>
    /\ resp' = NoResp

Continue(p, c, s) == IF c.status # 200 THEN Reject(p, c) ELSE EnterLock(p, c, s)

\* a request arrives
Received == nreq < MaxRequests /\ nreq' = nreq + 1

\* get: no suspension point
Get(p) ==
    /\ pc[p] = "idle"
    /\ Received
    /\ \E path \in Paths :
        LET t == maybe_find_target_config(path[1], path[2], registry)
        IN  Respond(p, "GET", 200, "", IF t # NoTC THEN JsonOf(listHeap, dictHeap, t) ELSE <<>>)
    /\ UNCHANGED <<listHeap, dictHeap, lockHeld, registry, disk, pc, req, tc, fdStale, snap>>
    /\ hist' = Begun(p, Forget)

\* post, up to "await targets_in_request": the registry lookup
PostStart(p) ==
    /\ pc[p] = "idle"
    /\ Received
    /\ \E path \in Paths :
        /\ req' = [req EXCEPT ![p] = [method |-> "POST", application |-> path[1],
                                      environment |-> path[2]]]
        /\ tc' = [tc EXCEPT ![p] = maybe_find_target_config(path[1], path[2], registry)]
        /\ snap' = [snap EXCEPT ![p] =
                       Snapshot(maybe_find_target_config(path[1], path[2], registry))]
    /\ pc' = [pc EXCEPT ![p] = "post_body"]
    /\ resp' = NoResp
    /\ UNCHANGED <<listHeap, dictHeap, lockHeld, registry, disk, fdStale>>
    /\ hist' = Begun(p, Forget)

\* post, from the request body to the lock in write_to_file
PostBody(p, bodies) ==
    /\ pc[p] = "post_body"
    /\ UNCHANGED nreq
    /\ \E body \in bodies :
        LET c1 == IF ParseOk(body) THEN post_apply(Ctx(p), req[p], body)
                  ELSE Raise(Ctx(p), ParseError(body))
        IN  /\ Continue(p, IF c1.status = 200 THEN write_to_file_check(c1) ELSE c1,
                        [snap[p] EXCEPT !.expect = post_value(snap[p].base, body)])
            /\ hist' = Noted(p, body)

\* put, up to "await targets_in_request"
PutStart(p) ==
    /\ pc[p] = "idle"
    /\ Received
    /\ \E path \in Paths :
        req' = [req EXCEPT ![p] = [method |-> "PUT", application |-> path[1],
                                   environment |-> path[2]]]
    /\ pc' = [pc EXCEPT ![p] = "put_body"]
    /\ resp' = NoResp
    /\ UNCHANGED <<listHeap, dictHeap, lockHeld, registry, disk, tc, fdStale, snap>>
    /\ hist' = Begun(p, hist)

\* put, from the request body to the lock in write_to_file
PutBody(p, bodies) ==
    /\ pc[p] = "put_body"
    /\ UNCHANGED nreq
    /\ \E body \in bodies :
        LET c1 == IF ParseOk(body) THEN put_apply(Ctx(p), req[p], body)
                  ELSE Raise(Ctx(p), ParseError(body))
            t == maybe_find_target_config(req[p].application, req[p].environment, registry)
            s == IF body.targets # <<>> /\ body.labels # <<>> THEN NoSnap ELSE Snapshot(t)
        IN  /\ Continue(p, IF c1.status = 200 THEN write_to_file_check(c1) ELSE c1,
                        [s EXCEPT !.expect = put_value(s.base, body)])
            /\ hist' = NotedPut(p, body)

\* delete, up to "await targets_in_request": the lookup, 400 for an unknown identity
DeleteStart(p) ==
    /\ pc[p] = "idle"
    /\ Received
    /\ \E path \in Paths :
        LET t == maybe_find_target_config(path[1], path[2], registry)
        IN  IF t = NoTC
            THEN /\ Respond(p, "DELETE", StatusOf("InvalidUsage"), "InvalidUsage", <<>>)
                 /\ UNCHANGED <<pc, req, tc, snap>>
            ELSE /\ req' = [req EXCEPT ![p] = [method |-> "DELETE", application |-> path[1],
                                               environment |-> path[2]]]
                 /\ tc' = [tc EXCEPT ![p] = t]
                 /\ snap' = [snap EXCEPT ![p] = Snapshot(t)]
                 /\ pc' = [pc EXCEPT ![p] = "delete_body"]
                 /\ resp' = NoResp
    /\ UNCHANGED <<listHeap, dictHeap, lockHeld, registry, disk, fdStale>>
    /\ hist' = Begun(p, Forget)

\* delete_file, up to "await aiofiles.os.remove": FileNotFoundError is not among
\* the exceptions targets_management maps, so the answer is 500
DeleteFileStart(p, c) ==
    IF FileOf(c.t) \notin DOMAIN disk
    THEN Reject(p, Raise(c, "FileNotFoundError"))
    ELSE /\ pc' = [pc EXCEPT ![p] = "removing"]
         /\ resp' = NoResp
         /\ UNCHANGED <<listHeap, dictHeap, lockHeld, registry, disk, req, tc, fdStale, snap>>

\* delete, from the request body to the remove or to the lock in write_to_file
DeleteBody(p, bodies) ==
    /\ pc[p] = "delete_body"
    /\ UNCHANGED nreq
    /\ \E body \in bodies : \E pick \in DeletePicks(Ctx(p), body) :
        LET c1 == IF ParseOk(body) THEN delete_apply(Ctx(p), body, pick)
                  ELSE Raise(Ctx(p), ParseError(body))
        IN  /\ IF c1.status # 200 THEN Reject(p, c1)
               ELSE IF body.targets = <<>> /\ body.labels = <<>> THEN DeleteFileStart(p, c1)
               ELSE Continue(p, write_to_file_check(c1),
                             [snap[p] EXCEPT !.expect = delete_value(snap[p].base, body, pick)])
            /\ hist' = Noted(p, body)

\* a handler suspended in self._file_lock.acquire() gets the lock
LockAcquired(p) ==
    /\ pc[p] = "lock_wait"
    /\ UNCHANGED nreq
    /\ ~lockHeld[tc[p].lock]
    /\ lockHeld' = [lockHeld EXCEPT ![tc[p].lock] = TRUE]
    /\ pc' = [pc EXCEPT ![p] = "opening"]
    /\ resp' = NoResp
    /\ UNCHANGED <<listHeap, dictHeap, registry, disk, req, tc, fdStale, snap, hist>>

\* aiofiles.open(file_path, mode="w") in the pool thread: the file is created or
\* truncated
FileOpen(p) ==
    /\ pc[p] = "opening"
    /\ UNCHANGED nreq
    /\ disk' = DictUpdate(disk, [f \in {FileOf(tc[p])} |-> FileEmpty])
    /\ fdStale' = [fdStale EXCEPT ![p] = FALSE]
    /\ pc' = [pc EXCEPT ![p] = "writing"]
    /\ resp' = NoResp
    /\ UNCHANGED <<listHeap, dictHeap, lockHeld, registry, req, tc, snap, hist>>

\* bytes written from offset 0 over what the file holds: a shorter document on top
\* of a longer one leaves the tail of the longer one
Overwrite(old, doc) ==
    IF old.len <= JsonLen(doc) THEN FileJson(doc) ELSE FileMixed(old.len)

\* target_file.write(self.json) and the close that flushes it: self.json is read
\* now; an unlinked file takes the bytes with it
FileWrite(p) ==
    /\ pc[p] = "writing"
    /\ UNCHANGED nreq
    /\ disk' = IF fdStale[p] THEN disk
               ELSE [disk EXCEPT ![FileOf(tc[p])] =
                        Overwrite(@, JsonOf(listHeap, dictHeap, tc[p]))]
    /\ fdStale' = [fdStale EXCEPT ![p] = FALSE]
    /\ pc' = [pc EXCEPT ![p] = "written"]
    /\ resp' = NoResp
    /\ UNCHANGED <<listHeap, dictHeap, lockHeld, registry, req, tc, snap, hist>>

\* the same leaving "async with" without the release of the lock
WriteDone_holding(p) ==
    /\ pc[p] = "written"
    /\ UNCHANGED nreq
    /\ pc' = [pc EXCEPT ![p] = "idle"]
    /\ req' = [req EXCEPT ![p] = NoReq]
    /\ Respond(p, req[p].method, 200, "", JsonOf(listHeap, dictHeap, tc[p]))
    /\ Store(listHeap, dictHeap, lockHeld,
             DictUpdate(registry, [f \in {FileOf(tc[p])} |-> tc[p]]),
             [tc EXCEPT ![p] = NoTC])
    /\ snap' = [q \in Procs |->
                  IF q = p THEN NoSnap
                  ELSE IF /\ snap[p].base # <<>>
                          /\ snap[q].base # <<>>
                          /\ FileOf(tc[q]) = FileOf(tc[p])
                       THEN [snap[q] EXCEPT !.overlapped = TRUE]
                       ELSE snap[q]]
    /\ UNCHANGED <<disk, fdStale>>
    /\ hist' = Finished(p)

\* write_to_file returns: the lock is released, save_in_app_config, the response
WriteDone(p) ==
    /\ pc[p] = "written"
    /\ UNCHANGED nreq
    /\ pc' = [pc EXCEPT ![p] = "idle"]
    /\ req' = [req EXCEPT ![p] = NoReq]
    /\ Respond(p, req[p].method, 200, "", JsonOf(listHeap, dictHeap, tc[p]))
    /\ Store(listHeap, dictHeap, [lockHeld EXCEPT ![tc[p].lock] = FALSE],
             DictUpdate(registry, [f \in {FileOf(tc[p])} |-> tc[p]]),
             [tc EXCEPT ![p] = NoTC])
    /\ snap' = [q \in Procs |->
                  IF q = p THEN NoSnap
                  ELSE IF /\ snap[p].base # <<>>
                          /\ snap[q].base # <<>>
                          /\ FileOf(tc[q]) = FileOf(tc[p])
                       THEN [snap[q] EXCEPT !.overlapped = TRUE]
                       ELSE snap[q]]
    /\ UNCHANGED <<disk, fdStale>>
    /\ hist' = Finished(p)

\* os.remove in the pool thread; FileNotFoundError when the file is gone
FileRemove(p) ==
    /\ pc[p] = "removing"
    /\ UNCHANGED nreq
    /\ IF FileOf(tc[p]) \in DOMAIN disk
       THEN /\ disk' = DictRemove(disk, {FileOf(tc[p])})
            /\ fdStale' = [q \in Procs |->
                  fdStale[q] \/ (pc[q] = "writing" /\ FileOf(tc[q]) = FileOf(tc[p]))]
            /\ pc' = [pc EXCEPT ![p] = "removed"]
            /\ resp' = NoResp
            /\ UNCHANGED <<listHeap, dictHeap, lockHeld, registry, req, tc, snap>>
       ELSE Reject(p, Raise(Ctx(p), "FileNotFoundError"))
    /\ hist' = IF resp'.status # 0 THEN Finished(p) ELSE hist

\* delete_file returns: delete_from_app_config (KeyError when the key is gone),
\* the response
DeleteDone(p) ==
    /\ pc[p] = "removed"
    /\ UNCHANGED nreq
    /\ pc' = [pc EXCEPT ![p] = "idle"]
    /\ req' = [req EXCEPT ![p] = NoReq]
    /\ IF FileOf(tc[p]) \in DOMAIN registry
       THEN /\ Respond(p, "DELETE", 200, "", JsonOf(listHeap, dictHeap, tc[p]))
            /\ Store(listHeap, dictHeap, lockHeld,
                     DictRemove(registry, {FileOf(tc[p])}), [tc EXCEPT ![p] = NoTC])
       ELSE /\ Respond(p, "DELETE", StatusOf("KeyError"), "KeyError", <<>>)
            /\ Store(listHeap, dictHeap, lockHeld, registry, [tc EXCEPT ![p] = NoTC])
    /\ snap' = [snap EXCEPT ![p] = NoSnap]
    /\ UNCHANGED <<disk, fdStale>>
    /\ hist' = Finished(p)

Next ==
    \E p \in Procs :
        \/ Get(p)
        \/ PostStart(p)
        \/ PostBody(p, ConcurrentBodies)
        \/ PutStart(p)
        \/ PutBody(p, ConcurrentBodies)
        \/ DeleteStart(p)
        \/ DeleteBody(p, ConcurrentBodies)
        \/ LockAcquired(p)
        \/ FileOpen(p)
        \/ FileWrite(p)
        \/ WriteDone(p)
        \/ FileRemove(p)
        \/ DeleteDone(p)

Spec == Init /\ [][Next]_vars

\* Requests handled one at a time: one handler runs each request to its response
\* before the next request arrives, so the lock of write_to_file is always free
SeqProc == "p1"

NextSeq ==
    \/ Get(SeqProc)
    \/ PostStart(SeqProc)
    \/ PostBody(SeqProc, RequestBodies)
    \/ PutStart(SeqProc)
    \/ PutBody(SeqProc, RequestBodies)
    \/ DeleteStart(SeqProc)
    \/ DeleteBody(SeqProc, RequestBodies)
    \/ FileOpen(SeqProc)
    \/ FileWrite(SeqProc)
    \/ WriteDone(SeqProc)
    \/ FileRemove(SeqProc)
    \/ DeleteDone(SeqProc)

SpecSeq == Init /\ [][NextSeq]_vars

\* PUT requests handled one at a time, with a GET between them at times, and the
\* history of requests kept.  The bodies: no targets, one, two or an invalid one;
\* no labels, a new label, job overridden, both, or a blank job
PutTargets == {<<>>, <<"h1">>, <<"h2", "h1">>, <<"bad">>}

PutLabels ==
    {<<>>, << <<"k", "v">> >>, << <<"job", "web">> >>,
     << <<"job", "web">>, <<"k", "v">> >>, << <<"job", "">> >>}

PutBodies ==
    {b \in [hasTargets : BOOLEAN, targets : PutTargets,
            hasLabels : BOOLEAN, labels : PutLabels] :
        /\ b.hasTargets = (b.targets # <<>>)
        /\ b.hasLabels = (b.labels # <<>>)}

NextPut ==
    \/ Get(SeqProc)
    \/ PutStart(SeqProc)
    \/ PutBody(SeqProc, PutBodies)
    \/ FileOpen(SeqProc)
    \/ FileWrite(SeqProc)
    \/ WriteDone(SeqProc)

SpecPut == InitHist /\ [][NextPut]_vars

\* Requests of every method handled one at a time, with the history of requests
\* kept.  The bodies: no targets, one, two, the same one twice, or a valid one
\* followed by an invalid one; no labels, a new label, job overridden or blank
ApiTargets == {<<>>, <<"h1">>, <<"h2", "h1">>, <<"h1", "h1">>, <<"h1", "bad">>}

ApiLabels == {<<>>, << <<"k", "v">> >>, << <<"job", "web">> >>, << <<"job", "">> >>}

ApiBodies ==
    {b \in [hasTargets : BOOLEAN, targets : ApiTargets,
            hasLabels : BOOLEAN, labels : ApiLabels] :
        /\ b.hasTargets = (b.targets # <<>>)
        /\ b.hasLabels = (b.labels # <<>>)}

NextApi ==
    \/ Get(SeqProc)
    \/ PostStart(SeqProc)
    \/ PostBody(SeqProc, ApiBodies)
    \/ PutStart(SeqProc)
    \/ PutBody(SeqProc, ApiBodies)
    \/ DeleteStart(SeqProc)
    \/ DeleteBody(SeqProc, ApiBodies)
    \/ FileOpen(SeqProc)
    \/ FileWrite(SeqProc)
    \/ WriteDone(SeqProc)
    \/ FileRemove(SeqProc)
    \/ DeleteDone(SeqProc)

SpecApi == InitHist /\ [][NextApi]_vars

----------------------------------------------------------------------------
\* The TargetConfig label methods on their own: one object, built and then changed
\* by any sequence of the label methods the handlers call on it, with no handler,
\* schema check or file in between

\* labels given to the constructor and the methods
RecLabels == ReqLabels \cup {<<"env", "dev">>}

RecLabelSeqs ==
    {s \in SeqsUpTo(RecLabels, MaxReqLabels) :
        \A i, j \in 1..Len(s) : s[i][1] = s[j][1] => i = j}

\* targets given to the constructor
RecTargetSeqs == {<<>>} \cup {<<t>> : t \in ValidTargets}

\* the object after a call; the response slot keeps the call: the method, the
\* argument it was given (body), and what it returned (200 for True, InvalidUsage
\* for False) or raised
RecCall(method, args, c) ==
    /\ Store(c.lh, c.dh, c.lk, registry, [tc EXCEPT ![SeqProc] = c.t])
    /\ Respond(SeqProc, method, c.status, c.error, args)
    /\ UNCHANGED <<disk, pc, req, fdStale, nreq, snap, hist>>

\* the object after a call, and what the call returned or raised
RecStep(method, c) == RecCall(method, <<>>, c)

RecNew ==
    /\ tc[SeqProc] = NoTC
    /\ \E path \in Paths : \E targets \in RecTargetSeqs : \E labels \in RecLabelSeqs :
          RecStep("TargetConfig",
                  TargetConfigNew(Ctx(SeqProc), path[1], path[2], targets, DictOf(labels)))

RecUpdateLabels ==
    /\ tc[SeqProc] # NoTC
    /\ \E labels \in RecLabelSeqs :
        RecStep("update_with_new_labels", CallUpdateLabels(Ctx(SeqProc), labels))

RecDeleteLabels ==
    /\ tc[SeqProc] # NoTC
    /\ \E labels \in RecLabelSeqs :
        RecStep("delete_from_labels", CallDeleteLabels(Ctx(SeqProc), labels))

RecReplaceLabels ==
    /\ tc[SeqProc] # NoTC
    /\ \E labels \in RecLabelSeqs \ {<<>>} :
        RecStep("replace_labels_for_put", CallReplaceLabels(Ctx(SeqProc), labels))

NextRecord ==
    \/ RecNew
    \/ RecUpdateLabels
    \/ RecDeleteLabels
    \/ RecReplaceLabels

SpecRecord == Init /\ [][NextRecord]_vars

\* update_with_new_labels and delete_from_labels on their own, the calls kept:
\* one object, built and then changed by any sequence of the two methods, given
\* labels that validate_label lets through
LabelArgs ==
    {s \in RecLabelSeqs : \A i \in 1..Len(s) : validate_label(s[i][1], s[i][2])}

RecUpdateLabelsCall ==
    /\ tc[SeqProc] # NoTC
    /\ \E labels \in LabelArgs :
        RecCall("update_with_new_labels", labels, CallUpdateLabels(Ctx(SeqProc), labels))

RecDeleteLabelsCall ==
    /\ tc[SeqProc] # NoTC
    /\ \E labels \in LabelArgs :
        RecCall("delete_from_labels", labels, CallDeleteLabels(Ctx(SeqProc), labels))

NextLabels ==
    \/ RecNew
    \/ RecUpdateLabelsCall
    \/ RecDeleteLabelsCall

SpecLabels == Init /\ [][NextLabels]_vars

----------------------------------------------------------------------------
\* The TargetConfig targets methods on their own: one object, built with any
\* targets the validator lets through and then changed by any sequence of
\* update_with_new_targets, delete_from_targets and put's replacement of the list

\* targets given to the constructor and the methods
RecTargetArgs == SeqsUpTo(ReqTargets, MaxReqTargets)

RecNewTargets ==
    /\ tc[SeqProc] = NoTC
    /\ \E path \in Paths : \E targets \in RecTargetArgs :
          RecCall("TargetConfig", targets,
                  TargetConfigNew(Ctx(SeqProc), path[1], path[2], targets, EmptyDict))

RecUpdateTargets ==
    /\ tc[SeqProc] # NoTC
    /\ \E targets \in RecTargetArgs :
        RecCall("update_with_new_targets", targets, CallUpdateTargets(Ctx(SeqProc), targets))

RecReplaceTargets ==
    /\ tc[SeqProc] # NoTC
    /\ \E targets \in RecTargetArgs \ {<<>>} :
        RecCall("replace_targets", targets, CallReplaceTargets(Ctx(SeqProc), targets))

RecDeleteTargets ==
    /\ tc[SeqProc] # NoTC
    /\ \E targets \in RecTargetArgs :
        \E pick \in delete_from_targets(listHeap[tc[SeqProc].targets], targets).values :
            RecCall("delete_from_targets", targets,
                    CallDeleteTargets(Ctx(SeqProc), targets, pick))

NextTargets ==
    \/ RecNewTargets
    \/ RecUpdateTargets
    \/ RecReplaceTargets
    \/ RecDeleteTargets

SpecTargets == Init /\ [][NextTargets]_vars

\* The same with an object built with up to three different targets, to see the
\* order in which delete_from_targets leaves the targets that remain
RecNewOrdered ==
    /\ tc[SeqProc] = NoTC
    /\ \E path \in Paths :
        \E targets \in {s \in SeqsUpTo(ValidTargets, 3) : ~HasDuplicates(s)} :
          RecCall("TargetConfig", targets,
                  TargetConfigNew(Ctx(SeqProc), path[1], path[2], targets, EmptyDict))

NextOrder ==
    \/ RecNewOrdered
    \/ RecUpdateTargets
    \/ RecDeleteTargets

SpecOrder == Init /\ [][NextOrder]_vars

----------------------------------------------------------------------------
\* Properties

\* no request in flight
Quiescent == \A p \in Procs : pc[p] = "idle"

\* the handler's step from the request body on: it takes its lookup copy through
\* the mutation methods and ends in a rejection or in write_to_file
Mutates(p) == pc[p] \in {"post_body", "put_body", "delete_body"} /\ pc'[p] # pc[p]

\* the handler's step after write_to_file or delete_file has returned
Commits(p) == pc[p] \in {"written", "removed"} /\ pc'[p] = "idle"

\* a writer holds the file open
Writing(p, f) == pc[p] = "writing" /\ FileOf(tc[p]) = f

\* C1: in every quiescent state of a run that handles its requests one at a time,
\* every identity in the registry has a file, and the file holds the serialized
\* form of the registry's record
C1_QuiescentFilesEqualRegistry ==
    Quiescent =>
        \A f \in DOMAIN registry : f \in DOMAIN disk /\ disk[f] = FileJson(RegView[f])

\* C2: a POST for an existing identity that is answered 400 leaves the targets and
\* labels of the registry's record as they were
C2_RejectedPostLeavesRegistry ==
    [][\A p \in Procs :
          (pc[p] = "post_body" /\ tc[p] # NoTC /\ resp'.proc = p /\ resp'.status = 400)
              => RegView' = RegView]_vars

\* C3: what a registry lookup returns changes only in the step of a handler whose
\* write_to_file or delete_file has returned
C3_RegistryChangesOnlyAfterWrite ==
    [][RegView' # RegView => \E p \in Procs : Commits(p)]_vars

\* C4: no two handlers are between opening and closing the same identity's file
C4_WritesMutuallyExclusive ==
    \A f \in DOMAIN disk : \A p, q \in Procs : Writing(p, f) /\ Writing(q, f) => p = q

\* C5: a file that exists holds the complete serialized form of one record, at
\* every instant
C5_NoPartialFileVisible ==
    \A f \in DOMAIN disk : disk[f].kind = "json"

\* C6: when a handler that worked on a lookup commits after another such handler
\* committed since its lookup, the registry's record and the file are its own
\* request applied to what its lookup returned
C6_LastWriterWinsOverSnapshot ==
    [][\A q \in Procs :
          (pc[q] = "written" /\ pc'[q] = "idle" /\ snap[q].overlapped /\ snap[q].expect # <<>>)
              => /\ RegView'[FileOf(tc[q])] = snap[q].expect
                 /\ FileOf(tc[q]) \in DOMAIN disk'
                 /\ disk'[FileOf(tc[q])] = FileJson(snap[q].expect)]_vars

\* C7: the mutation methods applied to the record a lookup returned leave what
\* the registry holds unchanged
C7_LookupCopyIsIndependent ==
    [][\A p \in Procs : Mutates(p) => RegView' = RegView]_vars

\* C8: a TargetConfig has the labels job and env from its construction on, through
\* any sequence of update_with_new_labels, delete_from_labels and
\* replace_labels_for_put
C8_ProtectedLabelsPresent ==
    \A t \in Held(registry, tc) \ {NoTC} : {"job", "env"} \subseteq DOMAIN dictHeap[t.labels]

\* C8 witness: delete_from_labels has removed a label and job and env are there
C8_DeletedLabelKeepsProtected ==
    /\ resp.method = "delete_from_labels"
    /\ resp.status = 200
    /\ tc[SeqProc] # NoTC
    /\ {"job", "env"} \subseteq DOMAIN dictHeap[tc[SeqProc].labels]

\* C9: a file nobody holds open contains one element with a non-empty targets list
\* and a labels mapping with job and env, and a request refused by the schema
\* check of write_to_file leaves the files as they were
C9_WrittenFilesFitSchema ==
    /\ [](\A f \in DOMAIN disk :
            (\A p \in Procs : ~Writing(p, f))
                => /\ disk[f].kind = "json"
                   /\ Len(disk[f].doc) = 1
                   /\ disk[f].doc[1].targets # <<>>
                   /\ {"job", "env"} \subseteq DOMAIN disk[f].doc[1].labels)
    /\ [][resp'.error = "TypeError" => disk' = disk]_vars

\* C10: the targets list of a record in the registry has no duplicate entries
C10_NoDuplicateTargets ==
    \A f \in DOMAIN registry : ~HasDuplicates(RegView[f][1].targets)

----------------------------------------------------------------------------
\* Properties of the targets methods

\* the targets of the object the methods are called on
RecTargets == listHeap[tc[SeqProc].targets]

\* the step is a call of the method on an object that exists
Calls(method) == tc[SeqProc] # NoTC /\ tc'[SeqProc] # NoTC /\ resp'.method = method

\* C11: delete_from_targets never returns True with the targets list left empty,
\* whatever constructor, update_with_new_targets, replacement and earlier
\* delete_from_targets calls made of the object
C11_DeleteTargetsLeavesOne ==
    (tc[SeqProc] # NoTC /\ resp.method = "delete_from_targets" /\ resp.status = 200)
        => RecTargets # <<>>

\* C12: update_with_new_targets is all-or-nothing: when it returns False or raises
\* the targets list is what it was, when it returns True every element of the
\* argument is in the list, and the elements added are none or all of the argument
C12_AddTargetsAllOrNothing ==
    [][Calls("update_with_new_targets") =>
          /\ resp'.status # 200 => RecTargets' = RecTargets
          /\ resp'.status = 200 => Range(resp'.body) \subseteq Range(RecTargets')
          /\ \/ RecTargets' = RecTargets
             \/ RecTargets' = RecTargets \o resp'.body]_vars

\* C12 witness: the call raised for an invalid second element, and the valid first
\* element, which the list did not have, is not in the list
C12_InvalidSecondElementAddsNothing ==
    /\ tc[SeqProc] # NoTC
    /\ resp.method = "update_with_new_targets"
    /\ resp.error = "ValueError"
    /\ Len(resp.body) = 2
    /\ validate_target(resp.body[1])
    /\ ~validate_target(resp.body[2])
    /\ resp.body[1] \notin Range(RecTargets)
    /\ RecTargets # <<>>

\* C13: with valid targets, update_with_new_targets returns True exactly when the
\* argument is non-empty, has no duplicate and shares no element with the list,
\* and the list is then the old list followed by the argument in its order
C13_AddTargetsAppends ==
    [][(Calls("update_with_new_targets") /\ validate_targets(resp'.body)) =>
          /\ resp'.status = 200 <=>
                /\ resp'.body # <<>>
                /\ ~HasDuplicates(resp'.body)
                /\ Range(resp'.body) \cap Range(RecTargets) = {}
          /\ resp'.status = 200 => RecTargets' = RecTargets \o resp'.body]_vars

\* C13 witness: a target was appended to a list that held another one
C13_AppendedAfterOld ==
    /\ tc[SeqProc] # NoTC
    /\ resp.method = "update_with_new_targets"
    /\ resp.status = 200
    /\ resp.body = <<"h2">>
    /\ RecTargets = <<"h1", "h2">>

\* C14: delete_from_targets returns False and leaves the list as it was when the
\* argument is empty, has a duplicate or has a target the list does not hold;
\* when it returns True the targets are the previous ones less the argument's
C14_DeleteTargetsChecked ==
    [][Calls("delete_from_targets") =>
          /\ (\/ resp'.body = <<>>
              \/ HasDuplicates(resp'.body)
              \/ ~(Range(resp'.body) \subseteq Range(RecTargets)))
                => resp'.status # 200 /\ RecTargets' = RecTargets
          /\ resp'.status = 200
                => Range(RecTargets') = Range(RecTargets) \ Range(resp'.body)]_vars

\* C14 witness: a call naming a target the list holds and one it does not was
\* refused
C14_UnknownVictimRefused ==
    /\ tc[SeqProc] # NoTC
    /\ resp.method = "delete_from_targets"
    /\ resp.status = 400
    /\ Len(resp.body) = 2
    /\ resp.body[1] \in Range(RecTargets)
    /\ resp.body[2] \notin Range(RecTargets)
    /\ Len(RecTargets) = 2

----------------------------------------------------------------------------
\* Properties of the labels methods

\* the labels of the object the methods are called on
RecLabelsNow == dictHeap[tc[SeqProc].labels]

\* C15: with valid labels, update_with_new_labels returns True exactly when the
\* argument is non-empty and every name of it that the labels already have comes
\* with a non-blank value other than the stored one; the labels are then the old
\* ones overridden and extended by the argument, and otherwise what they were
C15_UpdateLabelsWholeBatch ==
    [][(/\ Calls("update_with_new_labels")
        /\ \A i \in 1..Len(resp'.body) : validate_label(resp'.body[i][1], resp'.body[i][2])) =>
          /\ resp'.status = 200 <=>
                /\ resp'.body # <<>>
                /\ \A i \in 1..Len(resp'.body) :
                      resp'.body[i][1] \in DOMAIN RecLabelsNow =>
                          /\ ~Blank(resp'.body[i][2])
                          /\ resp'.body[i][2] # RecLabelsNow[resp'.body[i][1]]
          /\ resp'.status = 200 => RecLabelsNow' = DictUpdate(RecLabelsNow, DictOf(resp'.body))
          /\ resp'.status # 200 => RecLabelsNow' = RecLabelsNow]_vars

\* C15 witness: a batch of a new name and of a stored name with its stored value
\* was refused, and the new name is not among the labels
C15_NoOpRejectsNewKeyToo ==
    /\ tc[SeqProc] # NoTC
    /\ resp.method = "update_with_new_labels"
    /\ resp.status = 400
    /\ Len(resp.body) = 2
    /\ resp.body[1][1] \notin DOMAIN RecLabelsNow
    /\ validate_label(resp.body[1][1], resp.body[1][2])
    /\ resp.body[2][1] \in DOMAIN RecLabelsNow
    /\ RecLabelsNow[resp.body[2][1]] = resp.body[2][2]

----------------------------------------------------------------------------
\* Properties of PUT and of the files it writes

\* the record the registry holds under f, as values
Stored(f) ==
    RecordValue(registry[f].application, registry[f].environment,
                listHeap[registry[f].targets], dictHeap[registry[f].labels])

\* the step in which the handler of a PUT that carried body saves its record and
\* answers 200
PutCommits(body) ==
    /\ pc[SeqProc] = "written"
    /\ pc'[SeqProc] = "idle"
    /\ req[SeqProc].method = "PUT"
    /\ hist.cur[SeqProc] = <<body>>

\* the labels a request gives, completed with job and env
Completed(labels, job, env) ==
    [n \in Names(labels) \cup {"job", "env"} |->
        IF n \in Names(labels) THEN DictOf(labels)[n]
        ELSE IF n = "job" THEN job ELSE env]

\* C17: from_json_file on the file written for a record gives a record equal
\* (__eq__) to it: same application, environment, labels, and targets up to order
C17_FileReadsBackEqual ==
    \A f \in DOMAIN registry :
        (Quiescent /\ f \in DOMAIN disk /\ disk[f] = FileJson(RegView[f]))
            => /\ from_json_file(disk[f].doc) # <<>>
               /\ eq(from_json_file(disk[f].doc)[1], Stored(f))

\* C18: a PUT answered right after a PUT with the same body gets the same status
\* and leaves the registry and the files as the first one left them
C18_PutIdempotent ==
    [][(/\ resp'.method = "PUT"
        /\ hist.last # <<>>
        /\ hist'.last # <<>>
        /\ hist'.last[1].body = hist.last[1].body)
            => hist'.last[1] = hist.last[1]]_vars

\* C18 witness: a PUT of labels alone was answered 200 twice in a row
C18_SamePutTwice ==
    /\ hist.repeat
    /\ resp.method = "PUT"
    /\ hist.last[1].status = 200
    /\ hist.last[1].body.targets = <<>>
    /\ hist.last[1].body.labels # <<>>

\* C19: a PUT with labels and no targets for an identity the registry has commits
\* the targets it found and, as labels, the request's labels plus job and env
\* with the values it found unless the request gives them
C19_PutLabelsOnly ==
    [][\A body \in PutBodies :
          (/\ PutCommits(body)
           /\ body.targets = <<>>
           /\ body.labels # <<>>
           /\ snap[SeqProc].base # <<>>)
              => LET old == snap[SeqProc].base[1]
                     f == FileOf(tc[SeqProc])
                 IN  /\ RegView'[f] =
                            json(old.targets,
                                 Completed(body.labels, old.labels["job"], old.labels["env"]))
                     /\ disk'[f] = FileJson(RegView'[f])]_vars

\* C19 witness: a PUT of the label k alone was committed for a record whose job
\* had been overridden, and job has the overriding value
C19_KeptOverriddenJob ==
    /\ resp.method = "PUT"
    /\ resp.status = 200
    /\ hist.last # <<>>
    /\ hist.last[1].body.targets = <<>>
    /\ hist.last[1].body.labels = << <<"k", "v">> >>
    /\ \E f \in DOMAIN registry : RegView[f][1].labels["job"] = "web"

\* C20: a PUT with targets and labels commits the request's targets and, as
\* labels, the request's labels plus job = application and env = environment of
\* the path unless the request gives them, whatever the registry held
C20_PutWholesale ==
    [][\A body \in PutBodies :
          (PutCommits(body) /\ body.targets # <<>> /\ body.labels # <<>>)
              => LET f == FileOf(tc[SeqProc])
                 IN  /\ RegView'[f] =
                            json(body.targets,
                                 Completed(body.labels, req[SeqProc].application,
                                           req[SeqProc].environment))
                     /\ disk'[f] = FileJson(RegView'[f])]_vars

\* C20 witness: a PUT with targets and the label k was committed right after a PUT
\* with other content, and job is the application of the path
C20_ReplacedWithDefaults ==
    /\ resp.method = "PUT"
    /\ resp.status = 200
    /\ hist.last # <<>>
    /\ ~hist.repeat
    /\ hist.last[1].body.targets = <<"h1">>
    /\ hist.last[1].body.labels = << <<"k", "v">> >>
    /\ \E f \in DOMAIN registry :
          RegView[f] = json(<<"h1">>, Completed(<< <<"k", "v">> >>, "svc", "prod"))

----------------------------------------------------------------------------
\* Two handlers whose requests overlap, with the history of requests kept.  The
\* bodies: a target with the label k, the label k alone with that value or with
\* another one, or nothing
StaleBodies ==
    {[hasTargets |-> FALSE, targets |-> <<>>, hasLabels |-> FALSE, labels |-> <<>>],
     [hasTargets |-> TRUE, targets |-> <<"h1">>,
      hasLabels |-> TRUE, labels |-> << <<"k", "v">> >>],
     [hasTargets |-> FALSE, targets |-> <<>>,
      hasLabels |-> TRUE, labels |-> << <<"k", "v">> >>],
     [hasTargets |-> FALSE, targets |-> <<>>,
      hasLabels |-> TRUE, labels |-> << <<"k", "w">> >>]}

NextStale ==
    \E p \in Procs :
        \/ Get(p)
        \/ PostStart(p)
        \/ PostBody(p, StaleBodies)
        \/ PutStart(p)
        \/ PutBody(p, StaleBodies)
        \/ DeleteStart(p)
        \/ DeleteBody(p, StaleBodies)
        \/ LockAcquired(p)
        \/ FileOpen(p)
        \/ FileWrite(p)
        \/ WriteDone(p)
        \/ FileRemove(p)
        \/ DeleteDone(p)

SpecStale == InitHist /\ [][NextStale]_vars

\* Two handlers under fair scheduling.  The bodies: a target with the label k,
\* or nothing
FairBodies ==
    {[hasTargets |-> TRUE, targets |-> <<"h1">>,
      hasLabels |-> TRUE, labels |-> << <<"k", "v">> >>],
     [hasTargets |-> FALSE, targets |-> <<>>, hasLabels |-> FALSE, labels |-> <<>>]}

\* the steps of a handler that wait for no lock: the request body has come, a
\* file operation has finished in the thread pool.  At most one is possible at
\* a time
Advance(p) ==
    \/ PostBody(p, FairBodies)
    \/ PutBody(p, FairBodies)
    \/ DeleteBody(p, FairBodies)
    \/ FileOpen(p)
    \/ FileWrite(p)
    \/ WriteDone(p)
    \/ FileRemove(p)
    \/ DeleteDone(p)

NextFair ==
    \E p \in Procs :
        \/ Get(p)
        \/ PostStart(p)
        \/ PutStart(p)
        \/ DeleteStart(p)
        \/ LockAcquired(p)
        \/ Advance(p)

\* The event loop runs every task that is ready and the thread pool finishes
\* every file operation; asyncio.Lock wakes its waiters in the order they came,
\* so a waiter is not passed over for ever.  Requests arrive or not as they like
Fairness == \A p \in Procs : WF_vars(Advance(p)) /\ SF_vars(LockAcquired(p))

SpecFair == Init /\ [][NextFair]_vars /\ Fairness

----------------------------------------------------------------------------
\* The application stopped and started again between requests: load_target_configs
\* builds the registry from the files of the directory

\* load_target_configs: every *.json file becomes a TargetConfig made by
\* from_json_file, stored under the base name of the file; an exception of any
\* file is raised again, and the application does not start
load_target_configs ==
    /\ Quiescent
    /\ disk # EmptyDict
    /\ \A f \in DOMAIN disk : disk[f].kind = "json" /\ from_json_file(disk[f].doc) # <<>>
    /\ LET slot == CHOOSE g \in [DOMAIN disk -> ObjIds] :
                        \A f1, f2 \in DOMAIN disk : g[f1] = g[f2] => f1 = f2
           loaded(f) == from_json_file(disk[f].doc)[1]
           at(i) == CHOOSE f \in DOMAIN disk : slot[f] = i
           used == {slot[f] : f \in DOMAIN disk}
       IN  /\ registry' = [f \in DOMAIN disk |->
                              [application |-> loaded(f).application,
                               environment |-> loaded(f).environment,
                               targets |-> slot[f], labels |-> slot[f], lock |-> slot[f]]]
           /\ listHeap' = [i \in ObjIds |-> IF i \in used THEN loaded(at(i)).targets ELSE <<>>]
           /\ dictHeap' = [i \in ObjIds |->
                              IF i \in used THEN loaded(at(i)).labels ELSE EmptyDict]
           /\ lockHeld' = [i \in ObjIds |-> FALSE]
    /\ resp' = NoResp
    /\ UNCHANGED <<disk, pc, req, tc, fdStale, nreq, snap, hist>>

NextLoad ==
    \/ load_target_configs
    \/ Get(SeqProc)
    \/ PostStart(SeqProc)
    \/ PostBody(SeqProc, ApiBodies)
    \/ PutStart(SeqProc)
    \/ PutBody(SeqProc, ApiBodies)
    \/ DeleteStart(SeqProc)
    \/ DeleteBody(SeqProc, ApiBodies)
    \/ FileOpen(SeqProc)
    \/ FileWrite(SeqProc)
    \/ WriteDone(SeqProc)
    \/ FileRemove(SeqProc)
    \/ DeleteDone(SeqProc)

SpecLoad == Init /\ [][NextLoad]_vars

----------------------------------------------------------------------------
\* validate_target on the characters of a target: the constructor is given one
\* target, a host followed or not by ":" and a port, and validates it

\* longest port of digits, in characters
MaxPortLen == 5

\* longest port of any characters
MaxMixedLen == 3

DecimalChars == {"0", "1", "2", "3", "4", "5", "6", "7", "8", "9"}

\* the digits of the ports, as many as the limits 1 and 65535 take
PortDigits == {"0", "1", "3", "5", "6"}

\* a character str.isdigit accepts and int does not: a superscript digit
SuperscriptChars == {"sup2"}

\* characters of a port: digits, a sign, and the separator once more
PortChars == PortDigits \cup SuperscriptChars \cup {"-", ":"}

Ports == SeqsUpTo(PortDigits, MaxPortLen) \cup SeqsUpTo(PortChars, MaxMixedLen)

\* hosts: a hostname, one that is no hostname, domain or IPv4 address, a blank
\* one and none at all
ValidHosts == {<<"h">>}

Hosts == ValidHosts \cup {<<"-">>, <<" ">>, <<>>}

\* the targets given to the constructor: the valid host with every port, the
\* other hosts with some
TargetStrings ==
    {host \o suffix :
        host \in ValidHosts,
        suffix \in {<<>>} \cup {<<":">> \o port : port \in Ports}}
    \cup {host \o suffix :
            host \in Hosts \ ValidHosts, suffix \in {<<>>, <<":", "1">>, <<":", "0">>}}

\* target.split(":", maxsplit=1): the part before the first ":" and, when there
\* is one, the part after it
split(target) ==
    IF ":" \notin Range(target) THEN <<target>>
    ELSE LET i == CHOOSE k \in 1..Len(target) :
                    target[k] = ":" /\ \A j \in 1..(k-1) : target[j] # ":"
         IN  <<SubSeq(target, 1, i - 1), SubSeq(target, i + 1, Len(target))>>

\* str.isdigit: not empty, and every character a digit
isdigit(port) == port # <<>> /\ Range(port) \subseteq DecimalChars \cup SuperscriptChars

DigitValue(c) ==
    CASE c = "0" -> 0 [] c = "1" -> 1 [] c = "2" -> 2 [] c = "3" -> 3 [] c = "4" -> 4
      [] c = "5" -> 5 [] c = "6" -> 6 [] c = "7" -> 7 [] c = "8" -> 8 [] c = "9" -> 9

\* int(port) for a port of decimal digits
RECURSIVE int(_)
int(port) ==
    IF port = <<>> THEN 0
    ELSE 10 * int(SubSeq(port, 1, Len(port) - 1)) + DigitValue(port[Len(port)])

\* valid_port with range(0, 2 ** 16)
valid_port_from_zero(port) ==
    IF ~isdigit(port) THEN "raise"
    ELSE IF ~(Range(port) \subseteq DecimalChars) THEN "raise"
    ELSE IF int(port) \notin 0..(2^16 - 1) THEN "raise"
    ELSE "true"

\* valid_port: "true", or "raise" for ValueError (int raises it for a digit that
\* is not decimal)
valid_port(port) ==
    IF ~isdigit(port) THEN "raise"
    ELSE IF ~(Range(port) \subseteq DecimalChars) THEN "raise"
    ELSE IF int(port) \notin 1..(2^16 - 1) THEN "raise"
    ELSE "true"

\* valid_host: valid_hostname, validators.domain or validators.ipv4 accepts
valid_host(host) == IF host \in ValidHosts THEN "true" ELSE "raise"

\* validate_target, on the characters
validate_target_text(target) ==
    LET host == split(target)[1]
        rest == Tail(split(target))
        port == IF rest = <<>> THEN <<"8", "0">> ELSE rest[1]
    IN  IF Range(host) \subseteq {" "} THEN "raise"
        ELSE IF valid_host(host) = "raise" THEN "raise"
        ELSE valid_port(port)

InitPort ==
    /\ \E target \in TargetStrings : resp = [NoResp EXCEPT !.body = target]
    /\ listHeap = [i \in ObjIds |-> <<>>]
    /\ dictHeap = [i \in ObjIds |-> EmptyDict]
    /\ lockHeld = [i \in ObjIds |-> FALSE]
    /\ registry = EmptyDict
    /\ disk = EmptyDict
    /\ pc = [p \in Procs |-> "idle"]
    /\ req = [p \in Procs |-> NoReq]
    /\ tc = [p \in Procs |-> NoTC]
    /\ fdStale = [p \in Procs |-> FALSE]
    /\ nreq = 0
    /\ snap = [p \in Procs |-> NoSnap]
    /\ hist = NoHist(FALSE)

\* TargetConfig(application=..., environment=..., targets=[target]): the validator
\* runs on the target, and the object keeps the list it is given
RecNewTarget ==
    /\ resp.method = ""
    /\ \E path \in Paths :
        LET c == Ctx(SeqProc)
        IN  RecCall("TargetConfig", resp.body,
                    IF validate_target_text(resp.body) = "true"
                    THEN [c EXCEPT !.lh[NewListId] = <<resp.body>>,
                                   !.dh[NewDictId] = attrs_post_init(path[1], path[2], EmptyDict),
                                   !.lk[NewLockId] = FALSE,
                                   !.t = [application |-> path[1], environment |-> path[2],
                                          targets |-> NewListId, labels |-> NewDictId,
                                          lock |-> NewLockId]]
                    ELSE Raise(c, "ValueError"))

NextPort == RecNewTarget

SpecPort == InitPort /\ [][NextPort]_vars

\* the port has decimal digits only, at least one, and as a number is in lo..hi
DecimalWithin(port, lo, hi) ==
    /\ Len(port) >= 1
    /\ \A i \in 1..Len(port) : port[i] \in DecimalChars
    /\ int(port) >= lo
    /\ int(port) <= hi

\* C28: a target with a valid host and a port is accepted exactly when the port
\* is a non-empty string of decimal digits with a value from 1 to 65535, and
\* refused with ValueError otherwise; with a valid host and no port it is
\* accepted; an accepted target is kept as it was given
C28_PortDigitsInRange ==
    (resp.method = "TargetConfig" /\ split(resp.body)[1] \in ValidHosts)
        => /\ Len(split(resp.body)) = 2
                => /\ resp.status = 200 <=> DecimalWithin(split(resp.body)[2], 1, 65535)
                   /\ resp.status # 200 => resp.status = 400 /\ resp.error = "ValueError"
           /\ Len(split(resp.body)) = 1 => resp.status = 200
           /\ resp.status = 200 => listHeap[tc[SeqProc].targets] = <<resp.body>>

\* C28 witness: the port 65535 was accepted with its host
C28_LargestPortAccepted ==
    /\ resp.method = "TargetConfig"
    /\ resp.status = 200
    /\ resp.body = <<"h", ":", "6", "5", "5", "3", "5">>
    /\ listHeap[tc[SeqProc].targets] = <<resp.body>>

----------------------------------------------------------------------------
\* __eq__ on its own: two TargetConfig objects, self held by one handler slot and
\* other by the second, built with any targets and labels the validators let
\* through, and compared

SelfProc == "p1"

OtherProc == "p2"

EqApplications == {"svc", "web"}

EqTargets == SeqsUpTo(ValidTargets, MaxReqTargets)

EqLabels == {<<>>, << <<"k", "v">> >>}

\* the TargetConfig objects the constructor makes of these arguments
EqRecords ==
    {RecordValue(path[1], path[2], targets,
                 attrs_post_init(path[1], path[2], DictOf(labels))) :
        path \in EqApplications \X {"prod"}, targets \in EqTargets, labels \in EqLabels}

\* the attributes of a handler's TargetConfig as values
RecordOf(p) ==
    RecordValue(tc[p].application, tc[p].environment,
                listHeap[tc[p].targets], dictHeap[tc[p].labels])

InitEq ==
    /\ \E self \in EqRecords : \E other \in EqRecords :
        /\ listHeap = [i \in ObjIds |-> IF i = 1 THEN self.targets
                                        ELSE IF i = 2 THEN other.targets ELSE <<>>]
        /\ dictHeap = [i \in ObjIds |-> IF i = 1 THEN self.labels
                                        ELSE IF i = 2 THEN other.labels ELSE EmptyDict]
        /\ tc = [p \in Procs |->
                    IF p = SelfProc
                    THEN [application |-> self.application,
                          environment |-> self.environment,
                          targets |-> 1, labels |-> 1, lock |-> 1]
                    ELSE [application |-> other.application,
                          environment |-> other.environment,
                          targets |-> 2, labels |-> 2, lock |-> 2]]
    /\ lockHeld = [i \in ObjIds |-> FALSE]
    /\ registry = EmptyDict
    /\ disk = EmptyDict
    /\ pc = [p \in Procs |-> "idle"]
    /\ req = [p \in Procs |-> NoReq]
    /\ fdStale = [p \in Procs |-> FALSE]
    /\ resp = NoResp
    /\ nreq = 0
    /\ snap = [p \in Procs |-> NoSnap]
    /\ hist = NoHist(FALSE)

\* self == other: the response slot keeps what __eq__ returned
Compare ==
    /\ resp = NoResp
    /\ Respond(SelfProc, "__eq__", 200, "", <<eq(RecordOf(SelfProc), RecordOf(OtherProc))>>)
    /\ UNCHANGED <<listHeap, dictHeap, lockHeld, registry, disk, pc, req, tc, fdStale,
                   nreq, snap, hist>>

NextEq == Compare

SpecEq == InitEq /\ [][NextEq]_vars

\* C27: __eq__ returns True exactly when the two objects have the same
\* application, the same environment, the same labels, and the same set of
\* targets
C27_EqualIffSameSets ==
    resp.method = "__eq__"
        => (resp.body[1] <=>
                /\ RecordOf(SelfProc).application = RecordOf(OtherProc).application
                /\ RecordOf(SelfProc).environment = RecordOf(OtherProc).environment
                /\ RecordOf(SelfProc).labels = RecordOf(OtherProc).labels
                /\ Range(RecordOf(SelfProc).targets) = Range(RecordOf(OtherProc).targets))

----------------------------------------------------------------------------
\* TargetConfig.filename on its own: two requests, each with the application and
\* the environment of its URL, and the file names their lookups go by

NameApplications == {"svc", "sv", "a", "ab"}

NameEnvironments == {"prod", "cprod", "bc", "c"}

InitName ==
    /\ \E a1, a2 \in NameApplications : \E e1, e2 \in NameEnvironments :
        req = [p \in Procs |->
                  IF p = SelfProc
                  THEN [method |-> "GET", application |-> a1, environment |-> e1]
                  ELSE [method |-> "GET", application |-> a2, environment |-> e2]]
    /\ listHeap = [i \in ObjIds |-> <<>>]
    /\ dictHeap = [i \in ObjIds |-> EmptyDict]
    /\ lockHeld = [i \in ObjIds |-> FALSE]
    /\ registry = EmptyDict
    /\ disk = EmptyDict
    /\ pc = [p \in Procs |-> "idle"]
    /\ tc = [p \in Procs |-> NoTC]
    /\ fdStale = [p \in Procs |-> FALSE]
    /\ resp = NoResp
    /\ nreq = 0
    /\ snap = [p \in Procs |-> NoSnap]
    /\ hist = NoHist(FALSE)

\* looking_for.filename of the two requests: the response slot keeps both names
Resolve ==
    /\ resp = NoResp
    /\ Respond(SelfProc, "filename", 200, "",
               <<FileOf(req[SelfProc]), FileOf(req[OtherProc])>>)
    /\ UNCHANGED <<listHeap, dictHeap, lockHeld, registry, disk, pc, req, tc, fdStale,
                   nreq, snap, hist>>

NextName == Resolve

SpecName == InitName /\ [][NextName]_vars

\* C34: two requests that differ in application or environment go by different
\* file names, the hash being one-to-one on the string it is given
C34_DistinctPairsDistinctFiles ==
    (/\ resp.method = "filename"
     /\ \/ req[SelfProc].application # req[OtherProc].application
        \/ req[SelfProc].environment # req[OtherProc].environment)
        => resp.body[1] # resp.body[2]

----------------------------------------------------------------------------
\* Properties of the handlers when requests are handled one at a time

\* the document the registry holds under f, <<>> when it holds none
Known(f) == IF f \in DOMAIN registry THEN RegView[f] ELSE <<>>

\* C21: a GET is answered 200 with the registry's record for the identity, or
\* with [] when the registry has none, and changes neither the registry nor the
\* set of files nor what they hold
C21_GetChangesNothing ==
    [][resp'.method = "GET"
        => /\ resp'.status = 200
           /\ \E f \in FileNames : resp'.body = Known(f)
           /\ registry' = registry
           /\ RegView' = RegView
           /\ disk' = disk]_vars

\* C21 witness: a GET was answered with the record the registry holds
C21_GetOfKnownIdentity ==
    /\ resp.method = "GET"
    /\ resp.status = 200
    /\ \E f \in DOMAIN registry : resp.body = RegView[f] /\ f \in DOMAIN disk

\* the body of the request the handler is working on has no targets and no labels
Unqualified == hist.cur[SeqProc] # <<>> /\ hist.cur[SeqProc][1].targets = <<>>
                                       /\ hist.cur[SeqProc][1].labels = <<>>

\* C22: a DELETE without qualifiers for an identity the registry holds goes on
\* to remove the file, then the registry entry, and is answered 200 with the
\* removed record; from then on a GET is answered [] and the entry comes back
\* only with a POST or a PUT that is answered 200
C22_DeleteRemovesUntilRecreated ==
    [][/\ (pc[SeqProc] = "delete_body" /\ Unqualified')
            => pc'[SeqProc] = "removing"
       /\ pc[SeqProc] = "removing"
            => /\ pc'[SeqProc] = "removed"
               /\ FileOf(tc[SeqProc]) \notin DOMAIN disk'
               /\ Unqualified
       /\ pc[SeqProc] = "removed"
            => /\ resp'.method = "DELETE" /\ resp'.status = 200
               /\ resp'.body = Known(FileOf(tc[SeqProc]))
               /\ resp'.body # <<>>
               /\ FileOf(tc[SeqProc]) \notin DOMAIN registry'
               /\ FileOf(tc[SeqProc]) \notin DOMAIN disk'
       /\ \A f \in FileNames :
            /\ (f \notin DOMAIN registry /\ resp'.method = "GET") => resp'.body = <<>>
            /\ (f \notin DOMAIN registry /\ f \in DOMAIN registry')
                    => resp'.method \in {"POST", "PUT"} /\ resp'.status = 200]_vars

\* C22 witness: a DELETE was answered 200 with a record, and neither the file nor
\* the registry entry is there any more
C22_RecordRemoved ==
    /\ resp.method = "DELETE"
    /\ resp.status = 200
    /\ resp.body # <<>>
    /\ registry = EmptyDict
    /\ disk = EmptyDict

\* the step in which a request of this method comes in
Arrives(method) ==
    /\ pc[SeqProc] = "idle"
    /\ nreq' = nreq + 1
    /\ req'[SeqProc].method = method \/ resp'.method = method

\* C23: a DELETE for an identity the registry does not hold is answered 400 at
\* once: the handler goes no further, and the registry, the records and the files
\* stay as they are
C23_DeleteUnknownRejected ==
    [][(Arrives("DELETE") /\ \E f \in FileNames : f \notin DOMAIN registry)
        => /\ resp'.method = "DELETE"
           /\ resp'.status = 400
           /\ pc'[SeqProc] = "idle"
           /\ registry' = registry
           /\ RegView' = RegView
           /\ disk' = disk]_vars

\* C23 witness: a DELETE was answered 400 while the registry held nothing and the
\* directory no file
C23_UnknownIdentityRefused ==
    /\ resp.method = "DELETE"
    /\ resp.status = 400
    /\ registry = EmptyDict
    /\ disk = EmptyDict

\* the handler reads the body of its request in this step
ReadsBody(method) ==
    /\ pc[SeqProc] = IF method = "POST" THEN "post_body" ELSE "put_body"
    /\ hist'.cur[SeqProc] # <<>>

\* C24: a POST or a PUT whose body has no targets, for an identity the registry
\* does not hold, is answered 400 and leaves the registry and the directory as
\* they are; a file or a registry entry for such an identity appears only in a
\* step of a request whose body has a target
C24_CreationNeedsTarget ==
    [][\A f \in FileNames :
        /\ (/\ ReadsBody("POST") \/ ReadsBody("PUT")
            /\ FileOf(req[SeqProc]) = f
            /\ f \notin DOMAIN registry
            /\ hist'.cur[SeqProc][1].targets = <<>>)
                => /\ resp'.status = 400
                   /\ registry' = registry
                   /\ disk' = disk
        /\ (/\ f \notin DOMAIN registry
            /\ f \in DOMAIN registry' \/ (f \notin DOMAIN disk /\ f \in DOMAIN disk'))
                => /\ hist.cur[SeqProc] # <<>>
                   /\ hist.cur[SeqProc][1].targets # <<>>]_vars

\* C24 witness: a PUT that carried labels alone was answered 400 and there is
\* neither a registry entry nor a file
C24_LabelsOnlyPutCreatesNothing ==
    /\ resp.method = "PUT"
    /\ resp.status = 400
    /\ hist.cur[SeqProc] # <<>>
    /\ hist.cur[SeqProc][1].targets = <<>>
    /\ hist.cur[SeqProc][1].labels = << <<"k", "v">> >>
    /\ registry = EmptyDict
    /\ disk = EmptyDict

\* the step in which the handler of a POST that carried body saves its record and
\* answers 200
PostCommits(body) ==
    /\ pc[SeqProc] = "written"
    /\ pc'[SeqProc] = "idle"
    /\ req[SeqProc].method = "POST"
    /\ hist.cur[SeqProc] = <<body>>

\* body has labels only, none of which the registry's record under f has
OnlyNewLabels(body, f) ==
    /\ body.targets = <<>>
    /\ body.labels # <<>>
    /\ Names(body.labels) \cap DOMAIN RegView[f][1].labels = {}

\* C25: a POST with targets that are all valid, for an identity the registry does
\* not hold, goes on to its write and is answered 200, and then the registry and
\* the file hold the targets of the request in its order and its labels with job
\* and env filled in from the identity where it gives none; a POST with labels
\* only, all of them new to the record, is answered 200 too, adds them and keeps
\* the targets
C25_PostCreatesAndExtends ==
    [][\A f \in FileNames : \A body \in ApiBodies :
        /\ (/\ ReadsBody("POST")
            /\ hist'.cur[SeqProc] = <<body>>
            /\ FileOf(req[SeqProc]) = f
            /\ \/ /\ f \notin DOMAIN registry
                  /\ body.targets # <<>>
                  /\ validate_targets(body.targets)
               \/ /\ f \in DOMAIN registry
                  /\ OnlyNewLabels(body, f))
                => pc'[SeqProc] = "opening"
        /\ (PostCommits(body) /\ FileOf(req[SeqProc]) = f /\ f \notin DOMAIN registry)
                => /\ resp'.status = 200
                   /\ f \in DOMAIN registry'
                   /\ RegView'[f] = json(body.targets,
                                         Completed(body.labels, req[SeqProc].application,
                                                   req[SeqProc].environment))
                   /\ disk'[f] = FileJson(RegView'[f])
        /\ (/\ PostCommits(body)
            /\ FileOf(req[SeqProc]) = f
            /\ snap[SeqProc].base # <<>>
            /\ body.targets = <<>>
            /\ Names(body.labels) \cap DOMAIN snap[SeqProc].base[1].labels = {})
                => /\ resp'.status = 200
                   /\ RegView'[f] = json(snap[SeqProc].base[1].targets,
                                         DictUpdate(snap[SeqProc].base[1].labels,
                                                    DictOf(body.labels)))
                   /\ disk'[f] = FileJson(RegView'[f])]_vars

\* the handler is working on a DELETE whose body, which it has read, names
\* targets or labels
Qualified ==
    /\ req[SeqProc].method = "DELETE"
    /\ hist.cur[SeqProc] # <<>>
    /\ ~Unqualified

\* C26: a DELETE with targets or labels in its body, for an identity the registry
\* holds, never takes away the registry entry or the file; it either goes on to
\* write the reduced record, which the registry and the file then hold, or is
\* answered 400 with the registry's record and the file as they were
C26_QualifiedDeleteAllOrNothing ==
    [][\A f \in FileNames :
        /\ (/\ pc[SeqProc] = "delete_body"
            /\ hist'.cur[SeqProc] # <<>>
            /\ ~Unqualified'
            /\ FileOf(req[SeqProc]) = f)
                => \/ pc'[SeqProc] = "opening" /\ resp'.status = 0
                   \/ /\ resp'.status = 400
                      /\ f \in DOMAIN registry'
                      /\ RegView'[f] = RegView[f]
                      /\ disk' = disk
        /\ (Qualified /\ FileOf(req[SeqProc]) = f)
                => /\ f \in DOMAIN registry'
                   /\ f \in DOMAIN disk'
        /\ (Qualified /\ FileOf(req[SeqProc]) = f /\ pc[SeqProc] = "written")
                => /\ resp'.status = 200
                   /\ disk'[f] = FileJson(RegView'[f])
                   /\ Range(RegView'[f][1].targets)
                        = Range(snap[SeqProc].base[1].targets)
                            \ Range(hist.cur[SeqProc][1].targets)
                   /\ RegView'[f][1].labels
                        = DictRemove(snap[SeqProc].base[1].labels,
                                     Names(hist.cur[SeqProc][1].labels))]_vars

\* body has targets and no labels
TargetsOnly(body) == body.targets # <<>> /\ body.labels = <<>>

\* C29: a PUT with targets only is answered 400 when one of its targets is
\* invalid, with the registry, its records and the files left as they were;
\* when all are valid it goes on to its write and is answered 200, and the
\* registry and the file then hold exactly the targets of the request, with the
\* labels the registry's record had
C29_PutTargetsAllOrNothing ==
    [][\A f \in FileNames : \A body \in ApiBodies :
        /\ (/\ ReadsBody("PUT")
            /\ hist'.cur[SeqProc] = <<body>>
            /\ TargetsOnly(body)
            /\ FileOf(req[SeqProc]) = f)
                => IF \A i \in 1..Len(body.targets) : body.targets[i] \in ValidTargets
                   THEN pc'[SeqProc] = "opening" /\ resp'.status = 0
                   ELSE /\ resp'.status = 400
                        /\ registry' = registry
                        /\ RegView' = RegView
                        /\ disk' = disk
        /\ (PutCommits(body) /\ TargetsOnly(body) /\ FileOf(req[SeqProc]) = f)
                => /\ resp'.status = 200
                   /\ RegView'[f][1].targets = body.targets
                   /\ f \in DOMAIN registry
                        => RegView'[f][1].labels = RegView[f][1].labels
                   /\ disk'[f] = FileJson(RegView'[f])]_vars

\* C29 witness: a PUT with the targets h1 and an invalid one, and no labels, was
\* answered 400 while the registry held a record with other targets, which the
\* file holds too
C29_InvalidItemLeavesRecord ==
    /\ resp.method = "PUT"
    /\ resp.status = 400
    /\ hist.cur[SeqProc] # <<>>
    /\ hist.cur[SeqProc][1].targets = <<"h1", "bad">>
    /\ hist.cur[SeqProc][1].labels = <<>>
    /\ \E f \in DOMAIN registry :
        /\ RegView[f][1].targets = <<"h2", "h1">>
        /\ f \in DOMAIN disk
        /\ disk[f] = FileJson(RegView[f])

\* body has targets and labels: put builds a new TargetConfig from it
Wholesale(body) == body.targets # <<>> /\ body.labels # <<>>

\* C30: the copy a handler gets from its lookup in the registry has the lock of
\* the registry's record, and so has the record it saves; the lock of the
\* registry's record for an identity changes only when a PUT with targets and
\* labels saves the TargetConfig it built, and an identity gets its first record,
\* with the lock of that record, only from a POST or a PUT
C30_LockHandleKept ==
    [][/\ \A f \in DOMAIN registry :
            /\ (/\ pc[SeqProc] = "idle"
                /\ pc'[SeqProc] \in {"post_body", "delete_body"}
                /\ FileOf(req'[SeqProc]) = f)
                    => tc'[SeqProc].lock = registry[f].lock
            /\ (/\ pc[SeqProc] = "put_body"
                /\ pc'[SeqProc] = "opening"
                /\ FileOf(req[SeqProc]) = f
                /\ ~Wholesale(hist'.cur[SeqProc][1]))
                    => tc'[SeqProc].lock = registry[f].lock
            /\ (pc[SeqProc] = "written" /\ FileOf(req[SeqProc]) = f)
                    => /\ registry'[f].lock = tc[SeqProc].lock
                       /\ registry'[f].lock # registry[f].lock
                            <=> (/\ req[SeqProc].method = "PUT"
                                 /\ Wholesale(hist.cur[SeqProc][1]))
       /\ \A g \in DOMAIN registry' \ DOMAIN registry :
            /\ pc[SeqProc] = "written"
            /\ req[SeqProc].method \in {"POST", "PUT"}
            /\ hist.cur[SeqProc][1].targets # <<>>
            /\ registry'[g].lock = tc[SeqProc].lock]_vars

\* C30 witness: the handler of a PUT with targets only is about to save its copy,
\* which has the new targets and the lock of the registry's record
C30_CopySharesLock ==
    /\ pc[SeqProc] = "written"
    /\ req[SeqProc].method = "PUT"
    /\ TargetsOnly(hist.cur[SeqProc][1])
    /\ \E f \in DOMAIN registry :
        /\ FileOf(tc[SeqProc]) = f
        /\ tc[SeqProc].lock = registry[f].lock
        /\ tc[SeqProc].targets # registry[f].targets

----------------------------------------------------------------------------
\* Properties of requests that overlap

\* the handler is inside "async with self._file_lock" with lock i
HoldsLock(p, i) == pc[p] \in {"opening", "writing", "written"} /\ tc[p].lock = i

\* the handler is in write_to_file, at its lock or inside it
InWrite(p) == pc[p] \in {"lock_wait", "opening", "writing", "written"}

----------------------------------------------------------------------------
\* Properties of the TargetConfig methods, continued

\* C32: whatever the constructor and the label methods were given, every label
\* name of the object is a valid one, and update_with_new_labels has not returned
\* True with an invalid name in the labels
C32_LabelNamesValid ==
    tc[SeqProc] # NoTC
        => /\ DOMAIN RecLabelsNow \subseteq ValidLabelNames
           /\ (resp.method = "update_with_new_labels" /\ resp.status = 200)
                => \A n \in DOMAIN RecLabelsNow : validate_label(n, RecLabelsNow[n])

\* C33: every key of the registry is the file name of the record stored under
\* it, after load_target_configs as after any request, and the requests for an
\* identity leave no file and no registry entry under another name
C33_KeyIsRecordFile ==
    /\ \A f \in DOMAIN registry : FileOf(registry[f]) = f
    /\ DOMAIN registry \subseteq FileNames
    /\ DOMAIN disk \subseteq FileNames

----------------------------------------------------------------------------
\* Properties of requests that overlap, continued

\* C35: whenever no request is in flight, whatever requests overlapped before,
\* the registry has an entry for exactly the identities that have a file, and
\* each file holds the serialized form of the registry's record
C35_QuiescentEntryIffFile ==
    Quiescent
        => /\ DOMAIN registry = DOMAIN disk
           /\ \A f \in DOMAIN registry : disk[f] = FileJson(RegView[f])

\* C36: when a DELETE with labels saves its record, a label of its body that the
\* registry's record has with another value than the body's is still there with
\* that value afterwards
C36_StaleDeleteRefused ==
    [][\A p \in Procs : \A f \in DOMAIN registry :
        (/\ pc[p] = "written"
         /\ pc'[p] = "idle"
         /\ req[p].method = "DELETE"
         /\ FileOf(tc[p]) = f
         /\ hist.cur[p] # <<>>)
            => \A n \in Names(hist.cur[p][1].labels) \cap DOMAIN RegView[f][1].labels :
                    RegView[f][1].labels[n] # DictOf(hist.cur[p][1].labels)[n]
                        => /\ n \in DOMAIN RegView'[f][1].labels
                           /\ RegView'[f][1].labels[n] = RegView[f][1].labels[n]]_vars

\* C37: a DELETE without targets and labels that has begun to remove the file
\* of its record is answered with 200 or 400
C37_UnqualifiedDeleteAnswered ==
    [][\A p \in Procs :
        (/\ pc[p] \in {"removing", "removed"}
         /\ resp'.proc = p
         /\ resp'.status # 0)
            => resp'.status \in {200, 400}]_vars

\* C38: when delete_from_targets returns True the targets list is the previous
\* list without the targets of the argument, the others in their previous order
C38_DeleteTargetsKeepsOrder ==
    [][(Calls("delete_from_targets") /\ resp'.status = 200) =>
          RecTargets' = SelectSeq(RecTargets, LAMBDA t : t \notin Range(resp'.body))]_vars

\* C39: with the tasks and the file operations scheduled fairly, whenever a
\* request is in flight or a lock is held, a state follows in which every
\* request has been answered and every lock is free; and a handler that waits
\* for a lock holds none
C39_RequestsEndLocksFree ==
    /\ (~Quiescent \/ \E i \in ObjIds : lockHeld[i])
            ~> (Quiescent /\ \A i \in ObjIds : ~lockHeld[i])
    /\ [](\A p \in Procs : pc[p] = "lock_wait" => \A i \in ObjIds : ~HoldsLock(p, i))

\* C39 witness: a handler waits for the lock of a record whose holder has
\* written the file and not yet returned
C39_WaiterBehindFinishedWrite ==
    \E p, q \in Procs :
        /\ pc[p] = "lock_wait"
        /\ pc[q] = "written"
        /\ tc[p].lock = tc[q].lock
        /\ lockHeld[tc[q].lock]

============================================================================
